---- MODULE Spec2Model ----
(***************************************************************************)
(* Stash backup controller: the in-process cron scheduler with its run     *)
(* lock (pkg/backup), the leader-election gate in front of it, and the     *)
(* BackupConfiguration reconciler (pkg/controller).                        *)
(***************************************************************************)
EXTENDS Integers, Sequences, FiniteSets, TLC

(***************************************************************************)
(* Bounds of the model.                                                    *)
(***************************************************************************)
\* replicas (pods) of the workload that run BackupScheduler
NumReplicas == 2
\* cron firings (goroutines started by the cron) followed per replica
NumFirings == 3
\* the lease clock, in seconds, is followed up to MaxTime
MaxTime == 30
\* a candidate waits RetryPeriod plus a jitter of 0..MaxJitter seconds
\* between two tries
MaxJitter == 2
\* backup targets of the invoker
NumTargets == 2

\* the generations a BackupConfiguration goes through
MaxGeneration == 2

\* the workers of the BackupConfiguration queue (c.NumThreads) and the keys
\* of the BackupConfigurations in the cluster
NumThreads == 2
NumKeys == 3

\* the keys that wait in the workload queues when sendEventToWorkloadQueue
\* is called
MaxQueued == 2

\* the rules of a restore
MaxRules == 3
\* collaborator calls that may fail in one reconciliation pass
MaxFailures == 2

Replicas == 1..NumReplicas
Firings == 1..NumFirings

(***************************************************************************)
(* Program constants.                                                      *)
(***************************************************************************)
\* c.locked is a channel of one slot ("single-slot exclusivity token")
LockedCap == 1

\* c.opt.Workload.Kind: the three kinds of the switch's case and one kind
\* of its default branch
Kinds == {"Deployment", "ReplicaSet", "ReplicationController", "StatefulSet"}
\* a switch whose case list lacks ReplicationController
LeaderElectedKindsWithoutRC == {"Deployment", "ReplicaSet"}

\* the case of BackupScheduler's switch that goes through electLeader
LeaderElectedKinds == {"Deployment", "ReplicaSet", "ReplicationController"}

\* leaderelection.LeaderElectionConfig of electLeader, in seconds
RenewDeadline == 10
RetryPeriod == 2
LeaseDurationOfRenewDeadline == RenewDeadline
LeaseDuration == 15

\* the delay of the requeues of applyBackupInvokerReconciliationLogic, in seconds
RequeueDelay == 5

\* r.Spec.Schedule of the Restic handed to configureScheduler; "bad" is an
\* expression cron.AddFunc rejects
Schedules == {"s1", "s2", "bad"}
CheckSchedule == "0 0 */3 * *"

VARIABLES
    kind,         \* c.opt.Workload.Kind, the same for every replica
    mpc,          \* per replica: where BackupScheduler is
    spc,          \* per replica: where the runScheduler goroutine is
    cronRunning,  \* per replica: c.cron.Start() was called
    entries,      \* per replica: c.cron.Entries(), in order
    locked,       \* per replica: number of tokens in the channel c.locked
    leaseHolder,  \* holder identity in the lease record, 0 when none
    le,           \* per replica: where the leaderelection.RunOrDie goroutine is
    cb,           \* per replica: the OnStartedLeading callback
    ctxDone,      \* per replica: the leading context is cancelled (stopCh closed)
    fpc,          \* per replica and firing: where the firing is
    facq,         \* per replica and firing: the firing received the token
    fran,         \* per replica and firing: the firing invoked its execution collaborator
    fres,         \* per replica and firing: what the firing returned
    fcalls,       \* per replica and firing: collaborator calls made so far, in order
    now,          \* lease clock: the time in seconds
    rec,          \* lease clock: the lease record, [holder, renew]
    lrole,        \* lease clock: per replica "candidate", "leader", "cut" (renewals fail) or "stopped"
    nextTry,      \* lease clock: per replica the time of its next tryAcquireOrRenew
    obsRec,       \* lease clock: per replica the record it last observed
    obsTime,      \* lease clock: per replica the time it first observed that record
    failStart,    \* lease clock: per replica the time of the first renewal it missed
    lastRenew,    \* lease clock: per replica the time of its last successful renewal
    acquiredAt,   \* lease clock: per replica the time it became leader
    pred,         \* lease clock: per replica the holder it took the lease from
    bcStored,     \* reconciler: the BackupConfiguration of the key exists
    deleting,     \* reconciler: its DeletionTimestamp is set
    finalizer,    \* reconciler: it carries the stash finalizer
    driver,       \* reconciler: its Spec.Driver
    repoState,    \* reconciler: what Repositories.Get answers: "found", "missing" or "error"
    secretState,  \* reconciler: what Secrets.Get answers
    targetState,  \* reconciler: per target what IsTargetExist answers
    conds,        \* reconciler: the conditions stored in its status
    cronJob,      \* reconciler: the backup triggering CronJob
    generation,   \* reconciler: its metadata.generation
    observedGeneration, \* reconciler: its status.observedGeneration
    queued,       \* reconciler: its key is in bcQueue
    lastCalls,    \* reconciler: the collaborator calls of the last pass, in order
    lastRequeues, \* reconciler: the delays of the AddAfter calls of the last pass
    lastApplyErr, \* reconciler: what applyBackupInvokerReconciliationLogic returned in the last pass
    lastErr,      \* reconciler: what runBackupConfigurationProcessor returned in the last pass
    inv,          \* reconciler: the paused flag, schedule and service account of its spec
    wlQueue,      \* reconciler: per workload kind the keys in the queue of its controller
    listed,       \* reconciler: the <<kind, name>> of the workloads in the listers
    ocConfigured, \* reconciler: the OpenShift client and the DeploymentConfig lister are set
    sidecar,      \* reconciler: per target whether its workload carries the stash sidecar
    rbac,         \* reconciler: the ClusterRoleBindings of the invoker exist
    bcQueue,      \* worker pool: the work queue of BackupConfiguration keys
    bcWorker,     \* worker pool: per worker the key it is processing, or NoKey
    bcDelayed,    \* worker pool: the keys whose delayed add is waiting for its time
    sent,         \* dispatch: the last call of sendEventToWorkloadQueue and what it returned
    restore       \* restore options: the arguments of RestoreOptionsForHost and what it returned

procVars == <<kind, mpc, spc, cronRunning, entries, locked>>
electVars == <<leaseHolder, le, cb, ctxDone>>
fireVars == <<fpc, facq, fran, fres, fcalls>>
leaseVars == <<now, rec, lrole, nextTry, obsRec, obsTime, failStart, lastRenew, acquiredAt, pred>>
reconVars == <<bcStored, deleting, finalizer, driver, repoState, secretState, targetState, conds,
               cronJob, generation, observedGeneration, queued, lastCalls, lastRequeues,
               lastApplyErr, lastErr, inv, wlQueue, listed, ocConfigured, sidecar, rbac>>
queueVars == <<bcQueue, bcWorker, bcDelayed, sent, restore>>
vars == <<procVars, electVars, fireVars, leaseVars, reconVars, queueVars>>

(***************************************************************************)
(* pkg/backup: BackupScheduler, electLeader, setupAndRunScheduler          *)
(***************************************************************************)

\* a callback that ignores the result of c.setup()
setupAndRunSchedulerAnyway(r, setupOk) ==
    spc' = [spc EXCEPT ![r] = "start"]

\* setupAndRunScheduler: c.setup() fails -> the error is returned and nothing
\* is started; otherwise "go c.runScheduler(stopBackup)".
setupAndRunScheduler(r, setupOk) ==
    spc' = [spc EXCEPT ![r] = IF setupOk THEN "start" ELSE @]

\* electLeader: resourcelock.New fails -> error; otherwise the goroutine
\* running leaderelection.RunOrDie is started and nil is returned.
electLeader(r, lockOk) ==
    le' = [le EXCEPT ![r] = IF lockOk THEN "acquiring" ELSE @]

\* BackupScheduler up to its "select {}" (or its error return).
BackupScheduler(r) ==
    /\ mpc[r] = "start"
    /\ \E ok \in BOOLEAN :
        /\ IF kind \in LeaderElectedKinds
           THEN electLeader(r, ok) /\ UNCHANGED spc
           ELSE setupAndRunScheduler(r, ok) /\ UNCHANGED le
        /\ mpc' = [mpc EXCEPT ![r] = IF ok THEN "blocked" ELSE "exited"]
    /\ UNCHANGED <<kind, cronRunning, entries, locked, leaseHolder, cb, ctxDone, fireVars, leaseVars, reconVars, queueVars>>

\* The lease can be taken when nobody holds it or when its holder stopped
\* renewing: RenewDeadline (10s) < LeaseDuration (15s), so a holder has given
\* up leading before the others may force-acquire.
LeaseFree == IF leaseHolder = 0 THEN TRUE ELSE le[leaseHolder] = "stopped"

\* RunOrDie: the acquire loop succeeds; the elector starts
\* "go OnStartedLeading(ctx)" and goes on renewing.
AcquireLease(r) ==
    /\ le[r] = "acquiring"
    /\ LeaseFree
    /\ leaseHolder' = r
    /\ le' = [le EXCEPT ![r] = "leading"]
    /\ cb' = [cb EXCEPT ![r] = "pending"]
    /\ UNCHANGED <<procVars, ctxDone, fireVars, leaseVars, reconVars, queueVars>>

\* OnStartedLeading: setupAndRunScheduler(ctx.Done()); an error is only logged.
OnStartedLeading(r) ==
    /\ cb[r] = "pending"
    /\ \E ok \in BOOLEAN :
        /\ setupAndRunScheduler(r, ok)
        /\ cb' = [cb EXCEPT ![r] = IF ok THEN "started" ELSE "failed"]
    /\ UNCHANGED <<kind, mpc, cronRunning, entries, locked, leaseHolder, le, ctxDone, fireVars, leaseVars, reconVars, queueVars>>

\* What losing leadership does to the cron: OnStoppedLeading only logs, and
\* nothing calls c.cron.Stop().
OnStoppedLeading(r) == cronRunning

\* RunOrDie: renewing failed within RenewDeadline; the leading context is
\* cancelled, OnStoppedLeading runs and RunOrDie returns.
LoseLeadership(r) ==
    /\ le[r] = "leading"
    /\ le' = [le EXCEPT ![r] = "stopped"]
    /\ ctxDone' = [ctxDone EXCEPT ![r] = TRUE]
    /\ cronRunning' = OnStoppedLeading(r)
    /\ UNCHANGED <<kind, mpc, spc, entries, locked, leaseHolder, cb, fireVars, leaseVars, reconVars, queueVars>>

(***************************************************************************)
(* pkg/backup: runScheduler, configureScheduler                            *)
(***************************************************************************)

\* c.cron.Start()
CronStart(r) ==
    /\ spc[r] = "start"
    /\ cronRunning' = [cronRunning EXCEPT ![r] = TRUE]
    /\ spc' = [spc EXCEPT ![r] = "token"]
    /\ UNCHANGED <<kind, mpc, entries, locked, electVars, fireVars, leaseVars, reconVars, queueVars>>

\* a runScheduler that sends no token
PutNoToken(r) == locked

\* the channel after "c.locked <- struct{}{}"
PutToken(r) == [locked EXCEPT ![r] = @ + 1]

\* c.locked <- struct{}{} in runScheduler (a send blocks while the slot is full)
PlaceToken(r) ==
    /\ spc[r] = "token"
    /\ locked[r] < LockedCap
    /\ locked' = PutToken(r)
    /\ spc' = [spc EXCEPT ![r] = "sync"]
    /\ UNCHANGED <<kind, mpc, cronRunning, entries, electVars, fireVars, leaseVars, reconVars, queueVars>>

\* stashInformerFactory.Start(stopCh) and WaitForCacheSync(stopCh): the sync
\* gives up only when stopCh is closed, and runScheduler then returns.
CacheSync(r) ==
    /\ spc[r] = "sync"
    /\ \/ spc' = [spc EXCEPT ![r] = "run"]
       \/ ctxDone[r] /\ spc' = [spc EXCEPT ![r] = "exit"]
    /\ UNCHANGED <<kind, mpc, cronRunning, entries, locked, electVars, fireVars, leaseVars, reconVars, queueVars>>

\* c.rQueue.Run(stopCh); <-stopCh; "Stopping Stash backup"
StopScheduler(r) ==
    /\ spc[r] = "run"
    /\ ctxDone[r]
    /\ spc' = [spc EXCEPT ![r] = "exit"]
    /\ UNCHANGED <<kind, mpc, cronRunning, entries, locked, electVars, fireVars, leaseVars, reconVars, queueVars>>

BackupEntry(s) == [fn |-> "backup", spec |-> s]
CheckEntry == [fn |-> "check", spec |-> CheckSchedule]

\* cron.AddFunc parses the expression
ValidSchedule(s) == s # "bad"

\* a loop over c.cron.Entries() that removes none of them
RemoveNoEntry(es) == es

\* the loop over c.cron.Entries(): c.cron.Remove of every entry
RECURSIVE RemoveEntries(_)
RemoveEntries(es) == IF es = <<>> THEN es ELSE RemoveEntries(Tail(es))

\* c.cron.AddFunc(spec, fn): an expression that does not parse adds nothing
AddFunc(es, fn, s) ==
    IF ValidSchedule(s)
       THEN [entries |-> Append(es, [fn |-> fn, spec |-> s]), err |-> FALSE]
       ELSE [entries |-> es, err |-> TRUE]

\* c.cron.Entries() after configureScheduler(r) with r.Spec.Schedule = s:
\* every previous entry is removed, then the backup entry is added and, if
\* that succeeded, the check entry.
EntriesAfterConfigure(old, s) ==
    LET b == AddFunc(RemoveEntries(old), "backup", s)
        c == AddFunc(b.entries, "check", CheckSchedule)
    IN  IF b.err THEN b.entries ELSE c.entries

\* configureScheduler, called by the Restic queue's worker while the queue
\* runs (c.rQueue.Run(stopCh))
configureSchedulerWith(r, schedules) ==
    /\ spc[r] = "run"
    /\ ~ctxDone[r]
    /\ \E s \in schedules :
        /\ EntriesAfterConfigure(entries[r], s) # entries[r]
        /\ entries' = [entries EXCEPT ![r] = EntriesAfterConfigure(@, s)]
    /\ UNCHANGED <<kind, mpc, spc, cronRunning, locked, electVars, fireVars, leaseVars, reconVars, queueVars>>

configureScheduler(r) == configureSchedulerWith(r, Schedules)

(***************************************************************************)
(* pkg/backup: the cron's firings, runOnceForScheduler, checkOnceForScheduler *)
(***************************************************************************)

\* The cron goroutine fires an entry: the entry's function starts in a
\* goroutine of its own.  Firings are numbered in the order they start.
Fire(r, f) ==
    /\ cronRunning[r]
    /\ fpc[r][f] = "idle"
    /\ \A g \in Firings : g < f => fpc[r][g] # "idle"
    /\ \E i \in 1..Len(entries[r]) :
        fpc' = [fpc EXCEPT ![r][f] = IF entries[r][i].fn = "backup" THEN "b_select" ELSE "c_get"]
    /\ UNCHANGED <<procVars, electVars, facq, fran, fres, fcalls, leaseVars, reconVars, queueVars>>

\* "case <-c.locked:" is ready
TokenAvailable(r) == locked[r] > 0

\* a receive that leaves the token in the channel
TakeTokenKeepsIt(r) == locked

\* the channel after "<-c.locked"
TakeToken(r) == [locked EXCEPT ![r] = @ - 1]

\* a default branch that logs but goes on to the execution collaborator
SkipStillExecutes(r, f) ==
    /\ fpc' = [fpc EXCEPT ![r][f] = "done"]
    /\ fres' = [fres EXCEPT ![r][f] = "nil"]
    /\ fran' = [fran EXCEPT ![r][f] = TRUE]
    /\ UNCHANGED <<locked, facq, fcalls>>

\* the default branch of the select: log "Skipping ..." and return nil
SkipFiring(r, f) ==
    /\ fpc' = [fpc EXCEPT ![r][f] = "done"]
    /\ fres' = [fres EXCEPT ![r][f] = "nil"]
    /\ UNCHANGED <<locked, facq, fran, fcalls>>

\* the select of runOnceForScheduler: receive the token, or take the default
\* branch and return nil
BackupSelect(r, f) ==
    /\ fpc[r][f] = "b_select"
    /\ IF TokenAvailable(r)
       THEN /\ locked' = TakeToken(r)
            /\ facq' = [facq EXCEPT ![r][f] = TRUE]
            /\ fpc' = [fpc EXCEPT ![r][f] = "b_body"]
            /\ UNCHANGED <<fres, fran, fcalls>>
       ELSE SkipFiring(r, f)
    /\ UNCHANGED <<kind, mpc, spc, cronRunning, entries, electVars, leaseVars, reconVars, queueVars>>

\* The steps of runOnceForScheduler between the select and runResticBackup,
\* in the order of the code; each may end the firing.
BackupSteps == <<"rLister.Get", "StorageSecretName", "Secrets.Get", "SetupEnv", "InitRepositoryIfAbsent", "createRepositoryCrdIfNotExist">>

\* where the body of runOnceForScheduler can stop: 0 = the policy is not
\* found (return nil), i in 1..6 = step i returns an error, 7 = every step
\* succeeds and runResticBackup is invoked
BackupStops == 0..(Len(BackupSteps) + 1)

\* one more way through the body: the policy the lister returns is paused,
\* every step succeeds and runResticBackup is invoked
PausedStop == Len(BackupSteps) + 2

\* the calls made by a body that stops at stop
CallsUpTo(stop) ==
    IF stop = 0 THEN SubSeq(BackupSteps, 1, 1)
    ELSE IF stop <= Len(BackupSteps) THEN SubSeq(BackupSteps, 1, stop)
    ELSE IF stop = PausedStop
            THEN <<"rLister.Get (paused)">> \o Tail(BackupSteps) \o <<"runResticBackup">>
            ELSE BackupSteps \o <<"runResticBackup">>

\* a body that goes on to runResticBackup after a step that failed
BackupBodyRunsAnyway(r, f, stops) ==
    /\ fpc[r][f] = "b_body"
    /\ \E stop \in stops :
        /\ fcalls' = [fcalls EXCEPT ![r][f] = CallsUpTo(stop)]
        /\ IF stop > 0
           THEN /\ fpc' = [fpc EXCEPT ![r][f] = "b_run"]
                /\ fran' = [fran EXCEPT ![r][f] = TRUE]
                /\ UNCHANGED fres
           ELSE /\ fpc' = [fpc EXCEPT ![r][f] = "ret"]
                /\ fres' = [fres EXCEPT ![r][f] = "nil"]
                /\ UNCHANGED fran
    /\ UNCHANGED <<procVars, electVars, facq, leaseVars, reconVars, queueVars>>

\* runOnceForScheduler after the token was received, up to the return of
\* an early exit or to the call of runResticBackup
BackupBodyWith(r, f, stops) ==
    /\ fpc[r][f] = "b_body"
    /\ \E stop \in stops :
        /\ fcalls' = [fcalls EXCEPT ![r][f] = CallsUpTo(stop)]
        /\ IF stop > Len(BackupSteps)
           THEN /\ fpc' = [fpc EXCEPT ![r][f] = "b_run"]
                /\ fran' = [fran EXCEPT ![r][f] = TRUE]
                /\ UNCHANGED fres
           ELSE /\ fpc' = [fpc EXCEPT ![r][f] = "ret"]
                /\ fres' = [fres EXCEPT ![r][f] = IF stop = 0 THEN "nil" ELSE "err"]
                /\ UNCHANGED fran
    /\ UNCHANGED <<procVars, electVars, facq, leaseVars, reconVars, queueVars>>

BackupBody(r, f) == BackupBodyWith(r, f, BackupStops)

\* c.runResticBackup(restic, repository) returns
BackupRun(r, f) ==
    /\ fpc[r][f] = "b_run"
    /\ \E res \in {"nil", "err"} : fres' = [fres EXCEPT ![r][f] = res]
    /\ fpc' = [fpc EXCEPT ![r][f] = "ret"]
    /\ UNCHANGED <<procVars, electVars, facq, fran, fcalls, leaseVars, reconVars, queueVars>>

\* checkOnceForScheduler up to its select: Repositories.Get
CheckGet(r, f) ==
    /\ fpc[r][f] = "c_get"
    /\ \/ /\ fpc' = [fpc EXCEPT ![r][f] = "c_select"]
          /\ UNCHANGED fres
       \/ \E res \in {"nil", "err"} :
            /\ fpc' = [fpc EXCEPT ![r][f] = "done"]
            /\ fres' = [fres EXCEPT ![r][f] = res]
    /\ fcalls' = [fcalls EXCEPT ![r][f] = <<"Repositories.Get">>]
    /\ UNCHANGED <<procVars, electVars, facq, fran, leaseVars, reconVars, queueVars>>

\* the select of checkOnceForScheduler; with the token, c.resticCLI.Check()
\* is invoked
CheckSelect(r, f) ==
    /\ fpc[r][f] = "c_select"
    /\ IF TokenAvailable(r)
       THEN /\ locked' = TakeToken(r)
            /\ facq' = [facq EXCEPT ![r][f] = TRUE]
            /\ fran' = [fran EXCEPT ![r][f] = TRUE]
            /\ fcalls' = [fcalls EXCEPT ![r][f] = Append(@, "Check")]
            /\ fpc' = [fpc EXCEPT ![r][f] = "c_run"]
            /\ UNCHANGED fres
       ELSE SkipFiring(r, f)
    /\ UNCHANGED <<kind, mpc, spc, cronRunning, entries, electVars, leaseVars, reconVars, queueVars>>

\* c.resticCLI.Check() returns; its error is the firing's result
CheckRun(r, f) ==
    /\ fpc[r][f] = "c_run"
    /\ \E res \in {"nil", "err"} : fres' = [fres EXCEPT ![r][f] = res]
    /\ fpc' = [fpc EXCEPT ![r][f] = "ret"]
    /\ UNCHANGED <<procVars, electVars, facq, fran, fcalls, leaseVars, reconVars, queueVars>>

\* a release written at the end of the function instead of deferred: the
\* error returns leave without it
ReleaseOnSuccessOnly(r, res) == IF res = "nil" THEN [locked EXCEPT ![r] = @ + 1] ELSE locked

\* the channel after the deferred "c.locked <- struct{}{}" of a firing that
\* returns with result res
ReleaseToken(r, res) == [locked EXCEPT ![r] = @ + 1]

\* A firing that holds the token returns: the deferred function sends the
\* token back.
Return(r, f) ==
    /\ fpc[r][f] = "ret"
    /\ locked[r] < LockedCap
    /\ locked' = ReleaseToken(r, fres[r][f])
    /\ fpc' = [fpc EXCEPT ![r][f] = "done"]
    /\ fcalls' = [fcalls EXCEPT ![r][f] = <<>>]
    /\ UNCHANGED <<kind, mpc, spc, cronRunning, entries, electVars, facq, fran, fres, leaseVars, reconVars, queueVars>>

(***************************************************************************)
(* pkg/controller: runBackupConfigurationProcessor,                        *)
(* applyBackupInvokerReconciliationLogic                                   *)
(***************************************************************************)

\* inv.TargetsInfo, every entry with a Target
Targets == 1..NumTargets

\* tref.Kind of the targets
TargetKind(t) == IF t % 2 = 1 THEN "Deployment" ELSE "PersistentVolumeClaim"

\* the kinds with util.BackupModel(kind) == apis.ModelSidecar
SidecarKinds ==
    {"Deployment", "DaemonSet", "StatefulSet", "ReplicationController", "ReplicaSet",
     "DeploymentConfig"}

\* the kinds sendEventToWorkloadQueue has a queue for (DeploymentConfig needs
\* the OpenShift client)
QueueKinds == {"Deployment", "DaemonSet", "StatefulSet", "ReplicationController", "ReplicaSet"}

\* the cases of the switch of sendEventToWorkloadQueue
DispatchKinds == QueueKinds \cup {"DeploymentConfig"}

NoQueuedKeys == [k \in DispatchKinds |-> {}]

\* inv.Driver: empty, api_v1beta1.ResticSnapshotter, or another one
ResticSnapshotter == "Restic"
Drivers == {"", ResticSnapshotter, "VolumeSnapshotter"}

\* inv.Driver == "" || inv.Driver == api_v1beta1.ResticSnapshotter
DefaultDriver == driver \in {"", ResticSnapshotter}

\* inv.TypeMeta.Kind of the invoker runBackupConfigurationProcessor extracts
InvokerKind == "BackupConfiguration"

\* the spec of the invoker: inv.Paused, inv.Schedule and
\* inv.RuntimeSettings.Pod.ServiceAccountName ("" when none is given)
InvokerSpecs == [paused : BOOLEAN, schedule : {"s1", "s2"}, serviceAccount : {"", "custom"}]

\* inv.Labels (their keys), inv.OwnerRef
InvLabels == {"app"}
InvOwnerRef == "invoker"

\* getBackupCronJobName(inv.ObjectMeta.Name)
CronJobName == "stash-trigger-bc"

\* apis.StashCronJobContainer, image.ToContainerImage(), apis.KeyDeleteJobOnCompletion
StashCronJobContainer == "stash-cronjob"
StashImage == "stash:tag"
KeyDeleteJobOnCompletion == "delete-job-on-completion"

\* what c.ensureImagePullSecrets returns
RegistryPullSecrets == {"regcred"}

\* the answers of a lookup: found, not found, another error
LookupAnswers == {"found", "missing", "error"}

\* the conditions of the invoker, <<type, target>>
CondKeys ==
    {<<"RepositoryFound", 0>>, <<"BackendSecretFound", 0>>, <<"CronJobCreated", 0>>}
        \cup {<<"BackupTargetFound", t>> : t \in Targets}

NoConditions == [k \in CondKeys |-> "none"]

NoCronJob ==
    [exists |-> FALSE, owners |-> {}, schedule |-> "", suspend |-> FALSE, labels |-> {},
     jobLabels |-> {}, podLabels |-> {}, containers |-> {}, serviceAccount |-> "",
     imagePullSecrets |-> {}]

\* the collaborator calls that can fail for a reason of their own, <<call, target>>
FallibleCalls ==
    {<<op, 0>> : op \in {"GetByKey", "ExtractBackupInvokerInfo", "AddFinalizer",
                         "SetRepositoryFoundCondition", "SetBackendSecretFoundCondition",
                         "SetCronJobCreatedCondition", "EnsureBackupTriggeringCronJob",
                         "CreateEvent", "UpdateBackupConfigurationStatus", "CronJobs.Get",
                         "PatchCronJob", "EnsureClusterRoleBindingDeleted", "RemoveFinalizer"}}
        \cup {<<"SetBackupTargetFoundCondition", t>> : t \in Targets}

\* the most fallible calls one pass makes
MaxCallsPerPass == 9 + NumTargets

\* the fallible calls that fail in one pass, by their rank among the
\* fallible calls of the pass: none, or up to MaxFailures in a row (a pass
\* returns at most three calls after the first one that fails)
FailureSets == {k..(k + n - 1) : k \in 1..MaxCallsPerPass, n \in 0..MaxFailures}

\* a nil error
NoError == {}

\* errors.NewAggregate([]error{err, err2}): nil errors drop out
NewAggregate(err, err2) == err \cup err2

\* the pass has made the call op on target ref, with argument or answer val
Call(p, op, ref, val) == [p EXCEPT !.calls = Append(@, <<op, ref, val>>)]

\* the fallible call the pass is about to make fails
Failing(p, f) == (p.made + 1) \in f

\* the pass has made the fallible call op on target ref
FallibleCall(p, op, ref, val) == [Call(p, op, ref, val) EXCEPT !.made = @ + 1]

\* a fallible call with no effect on the pass state other than its trace
Fallible(p, f, op, ref) ==
    [p |-> FallibleCall(p, op, ref, ""),
     err |-> IF Failing(p, f) THEN {<<op, ref>>} ELSE NoError]

\* conditions.Set...Condition...: inv.SetCondition writes the condition into
\* the status of the invoker
SetCondition(p, f, op, type, ref, val) ==
    LET q == FallibleCall(p, op, ref, val)
    IN  IF Failing(p, f)
           THEN [p |-> q, err |-> {<<op, ref>>}]
           ELSE [p |-> [q EXCEPT !.conds[<<type, ref>>] = val], err |-> NoError]

SetRepositoryFoundCondition(p, f, val) ==
    SetCondition(p, f, "SetRepositoryFoundCondition", "RepositoryFound", 0, val)

SetBackendSecretFoundCondition(p, f, val) ==
    SetCondition(p, f, "SetBackendSecretFoundCondition", "BackendSecretFound", 0, val)

SetBackupTargetFoundConditionShared(p, f, t, val) ==
    SetCondition(p, f, "SetBackupTargetFoundCondition", "BackupTargetFound", 1, val)

SetBackupTargetFoundCondition(p, f, t, val) ==
    SetCondition(p, f, "SetBackupTargetFoundCondition", "BackupTargetFound", t, val)

SetCronJobCreatedCondition(p, f, val) ==
    SetCondition(p, f, "SetCronJobCreatedCondition", "CronJobCreated", 0, val)

requeueInvokerDropsKey(p, invKind, delay) ==
    [p |-> p, err |-> NoError]

requeueInvoker(p, invKind, delay) ==
    IF invKind = "BackupConfiguration"
       THEN [p |-> [p EXCEPT !.requeues = Append(@, delay)], err |-> NoError]
       ELSE [p |-> p, err |-> {<<"requeueInvoker", 0>>}]

\* eventer.CreateEvent of the two failure handlers (inv.ObjectRef is set)
handleWorkloadControllerTriggerFailure(p, f, err) ==
    LET e == Fallible(p, f, "CreateEvent", 0)
    IN  [p |-> e.p, err |-> NewAggregate(err, e.err)]

handleCronJobCreationFailure(p, f, err) ==
    LET e == Fallible(p, f, "CreateEvent", 0)
    IN  [p |-> e.p, err |-> NewAggregate(err, e.err)]

\* cache.MetaNamespaceKeyFunc of an object a lister returned: its
\* namespace/name key (the name, all objects being in one namespace), no error
MetaNamespaceKeyFunc(name) == [key |-> name, err |-> NoError]

\* a switch that takes the DeploymentConfig case without looking at the
\* OpenShift client
ListerReadyWithoutPlatform(k) == k \in DispatchKinds

\* the case of kind k is there and its lister is set
ListerReady(k) == k \in QueueKinds \/ (k = "DeploymentConfig" /\ ocConfigured)

\* the lister of kind k returns the object of that name
ListerHas(k, name) == ListerReady(k) /\ <<k, name>> \in listed

\* the queues after sendEventToWorkloadQueue(k, namespace, name): the key
\* of the object the lister of k returned is added to the queue of k
QueuesAfterEvent(q, k, name) ==
    IF ListerHas(k, name) /\ MetaNamespaceKeyFunc(name).err = NoError
       THEN [q EXCEPT ![k] = @ \cup {MetaNamespaceKeyFunc(name).key}]
       ELSE q

\* what sendEventToWorkloadQueue(k, namespace, name) returns: the error of
\* the key function, which the StatefulSet case drops; nil in all other cases
EventError(k, name) ==
    IF ListerHas(k, name) /\ k # "StatefulSet"
       THEN MetaNamespaceKeyFunc(name).err
       ELSE NoError

\* sendEventToWorkloadQueue for target t, the name of its workload being t
sendEventToWorkloadQueue(p, f, t) ==
    [p |-> [p EXCEPT !.wl = QueuesAfterEvent(@, TargetKind(t), t)],
     err |-> EventError(TargetKind(t), t)]

EnsureV1beta1Sidecar(p, f, t) ==
    sendEventToWorkloadQueue(Call(p, "EnsureV1beta1Sidecar", t, ""), f, t)

EnsureV1beta1SidecarDeleted(p, f, t) ==
    sendEventToWorkloadQueue(Call(p, "EnsureV1beta1SidecarDeleted", t, ""), f, t)

\* core_util.UpsertMap(maps, upsert): the entries of upsert are put into maps
UpsertMap(maps, upsert) == maps \cup upsert

\* core_util.EnsureOwnerReference: the reference is added unless it is there
EnsureOwnerReference(owners, ref) == owners \cup {ref}

\* core_util.UpsertContainer: the container replaces the one of its name,
\* or is added
UpsertContainer(containers, c) == {x \in containers : x[1] # c[1]} \cup {c}

\* the service account of the CronJob: the one the invoker names, else one
\* created under the name of the CronJob
ServiceAccountName == IF inv.serviceAccount # "" THEN inv.serviceAccount ELSE CronJobName

\* the object CreateOrPatchCronJob hands to the transform function: the
\* CronJob found, or a new one with the labels of the invoker
CronJobBefore(cj) == IF cj.exists THEN cj ELSE [NoCronJob EXCEPT !.labels = InvLabels]

\* a transform function that flips the suspend flag of a paused invoker
\* instead of setting it
CronJobTransformFlipsSuspend(in) ==
    [exists |-> TRUE,
     owners |-> in.owners \cup {InvOwnerRef},
     schedule |-> inv.schedule,
     suspend |-> (in.suspend # inv.paused),
     labels |-> IF in.labels = {} THEN in.labels
                ELSE in.labels \cup InvLabels \cup {KeyDeleteJobOnCompletion},
     jobLabels |-> in.labels \cup InvLabels \cup {KeyDeleteJobOnCompletion},
     podLabels |-> in.podLabels \cup InvLabels,
     containers |-> {x \in in.containers : x[1] # StashCronJobContainer}
                        \cup {<<StashCronJobContainer, StashImage>>},
     serviceAccount |-> IF inv.serviceAccount # "" THEN inv.serviceAccount ELSE CronJobName,
     imagePullSecrets |-> RegistryPullSecrets]

\* a transform function that leaves the CronJob unsuspended
CronJobTransformNeverSuspends(in) ==
    [CronJobTransformFlipsSuspend(in) EXCEPT !.suspend = FALSE]

\* the transform function of CreateOrPatchCronJob; the job template labels
\* are the map of the labels of the CronJob itself, which therefore takes
\* the same entries
CronJobTransform(in) ==
    [exists |-> TRUE,
     owners |-> EnsureOwnerReference(in.owners, InvOwnerRef),
     schedule |-> inv.schedule,
     suspend |-> inv.paused,
     labels |-> IF in.labels = {}
                   THEN in.labels
                   ELSE UpsertMap(in.labels, InvLabels) \cup {KeyDeleteJobOnCompletion},
     jobLabels |-> UpsertMap(in.labels, InvLabels) \cup {KeyDeleteJobOnCompletion},
     podLabels |-> UpsertMap(in.podLabels, InvLabels),
     containers |-> UpsertContainer(in.containers, <<StashCronJobContainer, StashImage>>),
     serviceAccount |-> ServiceAccountName,
     imagePullSecrets |-> RegistryPullSecrets]

\* the verb CreateOrPatchCronJob returns: the CronJob was created, or
\* patched, or the patch was empty and nothing was sent
CronJobVerb(cur, mod) ==
    IF ~cur.exists THEN "created" ELSE IF mod = cur THEN "unchanged" ELSE "patched"

\* the service account, the RBAC objects and the image pull secrets are
\* ensured, then the CronJob is created or patched; a call of these that
\* fails returns its error with the CronJob not written
EnsureBackupTriggeringCronJob(p, f) ==
    LET e == Fallible(p, f, "EnsureBackupTriggeringCronJob", 0)
    IN  IF e.err # NoError
           THEN e
           ELSE [p |-> [Call(e.p, "CreateOrPatchCronJob", 0,
                             CronJobVerb(e.p.cronJob, CronJobTransform(CronJobBefore(e.p.cronJob))))
                           EXCEPT !.cronJob = CronJobTransform(CronJobBefore(@)),
                                  !.rbac = TRUE],
                 err |-> NoError]

\* a CronJob of the name of the trigger that does not have the invoker as
\* owner: one left by an earlier installation, or whose owner reference was
\* edited away
OrphanCronJob == [NoCronJob EXCEPT !.exists = TRUE, !.schedule = "s0"]

\* a deletion step that takes the owner reference of the invoker off the
\* CronJob
EnsureBackupTriggeringCronJobDeletedStripsOwner(p, f) ==
    LET g == Fallible(p, f, "CronJobs.Get", 0)
    IN  IF g.err # NoError
           THEN g
           ELSE IF ~p.cronJob.exists
                   THEN g
                   ELSE LET u == Fallible(g.p, f, "PatchCronJob", 0)
                        IN  IF u.err # NoError
                               THEN u
                               ELSE [p |-> [u.p EXCEPT !.cronJob.owners = @ \ {InvOwnerRef}],
                                     err |-> NoError]

\* an absent CronJob is left alone, an existing one is patched with
\* core_util.EnsureOwnerReference
EnsureBackupTriggeringCronJobDeleted(p, f) ==
    LET g == Fallible(p, f, "CronJobs.Get", 0)
    IN  IF g.err # NoError
           THEN g
           ELSE IF ~p.cronJob.exists
                   THEN g
                   ELSE LET u == Fallible(g.p, f, "PatchCronJob", 0)
                        IN  IF u.err # NoError
                               THEN u
                               ELSE [p |-> [u.p EXCEPT !.cronJob.owners =
                                                           EnsureOwnerReference(@, InvOwnerRef)],
                                     err |-> NoError]

AddFinalizer(p, f) ==
    LET a == Fallible(p, f, "AddFinalizer", 0)
    IN  IF a.err # NoError
           THEN a
           ELSE [p |-> [a.p EXCEPT !.finalizer = TRUE], err |-> NoError]

\* the finalizer goes, and with it the object whose deletion was waiting
RemoveFinalizer(p, f) ==
    LET a == Fallible(p, f, "RemoveFinalizer", 0)
    IN  IF a.err # NoError
           THEN a
           ELSE [p |-> [a.p EXCEPT !.finalizer = FALSE, !.stored = FALSE], err |-> NoError]

\* Repositories.Get answered not found
RepositoryNotFound(p, f) ==
    LET s == SetRepositoryFoundCondition(p, f, "False")
    IN  IF s.err # NoError THEN s ELSE requeueInvoker(s.p, InvokerKind, RequeueDelay)

RepositoryLookupFailedAsNotFound(p, f) ==
    RepositoryNotFound(p, f)

\* Repositories.Get answered another error
RepositoryLookupFailed(p, f) ==
    LET s == SetRepositoryFoundCondition(p, f, "Unknown")
    IN  [p |-> s.p, err |-> NewAggregate({<<"Repositories.Get", 0>>}, s.err)]

\* Secrets.Get answered not found
SecretNotFound(p, f) ==
    LET s == SetBackendSecretFoundCondition(p, f, "False")
    IN  IF s.err # NoError THEN s ELSE requeueInvoker(s.p, InvokerKind, RequeueDelay)

\* Secrets.Get answered another error
SecretLookupFailed(p, f) ==
    LET s == SetBackendSecretFoundCondition(p, f, "Unknown")
    IN  [p |-> s.p, err |-> NewAggregate({<<"Secrets.Get", 0>>}, s.err)]

\* IsTargetExist answered an error
TargetLookupFailed(p, f, t) ==
    LET s == SetBackupTargetFoundCondition(p, f, t, "Unknown")
    IN  [p |-> s.p, err |-> NewAggregate({<<"IsTargetExist", t>>}, s.err)]

\* the function returns what x holds
Returned(x) == [p |-> x.p, err |-> x.err, ret |-> TRUE]

\* the function goes on from p
Continue(p) == [p |-> p, err |-> NoError, ret |-> FALSE]

\* checks that go on to the backend secret and to the targets after a
\* repository that was not found
CheckRepositoryAndSecretGoesOn(p, f) ==
    LET g == Call(p, "Repositories.Get", 0, repoState)
        n == SetRepositoryFoundCondition(g, f, IF repoState = "found" THEN "True" ELSE "False")
        h == Call(n.p, "Secrets.Get", 0, secretState)
        c == SetBackendSecretFoundCondition(h, f, IF secretState = "found" THEN "True" ELSE "False")
    IN  IF n.err # NoError
           THEN Returned(n)
           ELSE IF c.err # NoError THEN Returned(c) ELSE Continue(c.p)

\* the repository and backend secret checks of the default driver
CheckRepositoryAndSecret(p, f) ==
    LET g == Call(p, "Repositories.Get", 0, repoState)
    IN  IF repoState = "missing"
           THEN Returned(RepositoryNotFound(g, f))
           ELSE IF repoState = "error"
                   THEN Returned(RepositoryLookupFailed(g, f))
                   ELSE LET s == SetRepositoryFoundCondition(g, f, "True")
                            h == Call(s.p, "Secrets.Get", 0, secretState)
                        IN  IF s.err # NoError
                               THEN Returned(s)
                               ELSE IF secretState = "missing"
                                       THEN Returned(SecretNotFound(h, f))
                                       ELSE IF secretState = "error"
                                               THEN Returned(SecretLookupFailed(h, f))
                                               ELSE LET c == SetBackendSecretFoundCondition(h, f, "True")
                                                    IN  IF c.err # NoError
                                                           THEN Returned(c)
                                                           ELSE Continue(c.p)

\* an end of the pass that records the CronJob as created whatever
\* EnsureBackupTriggeringCronJob returned
AfterTargetsRecordsTrue(p, f, someTargetMissing) ==
    IF someTargetMissing
       THEN requeueInvoker(p, InvokerKind, RequeueDelay)
       ELSE LET e == EnsureBackupTriggeringCronJob(p, f)
                c == SetCronJobCreatedCondition(e.p, f, "True")
            IN  IF e.err # NoError
                   THEN handleCronJobCreationFailure(c.p, f, NewAggregate(e.err, c.err))
                   ELSE c

\* after the loop over the targets: requeue when a target is missing, else
\* ensure the CronJob and record the outcome
AfterTargets(p, f, someTargetMissing) ==
    IF someTargetMissing
       THEN requeueInvoker(p, InvokerKind, RequeueDelay)
       ELSE LET e == EnsureBackupTriggeringCronJob(p, f)
                c == SetCronJobCreatedCondition(e.p, f, "False")
            IN  IF e.err # NoError
                   THEN handleCronJobCreationFailure(c.p, f, NewAggregate(e.err, c.err))
                   ELSE SetCronJobCreatedCondition(e.p, f, "True")

\* the loop over inv.TargetsInfo, from target t on
RECURSIVE TargetLoop(_, _, _, _)
TargetLoop(p, f, t, someTargetMissing) ==
    IF t > NumTargets
       THEN AfterTargets(p, f, someTargetMissing)
       ELSE LET g == Call(p, "IsTargetExist", t, targetState[t])
                no == SetBackupTargetFoundCondition(g, f, t, "False")
                yes == SetBackupTargetFoundCondition(g, f, t, "True")
                e == EnsureV1beta1Sidecar(yes.p, f, t)
            IN  IF targetState[t] = "error"
                   THEN TargetLookupFailed(g, f, t)
                   ELSE IF targetState[t] = "missing"
                           THEN IF no.err # NoError
                                   THEN no
                                   ELSE TargetLoop(no.p, f, t + 1, TRUE)
                           ELSE IF yes.err # NoError
                                   THEN yes
                                   ELSE IF DefaultDriver /\ TargetKind(t) \in SidecarKinds
                                           THEN IF e.err # NoError
                                                   THEN handleWorkloadControllerTriggerFailure(e.p, f, e.err)
                                                   ELSE TargetLoop(e.p, f, t + 1, someTargetMissing)
                                           ELSE TargetLoop(yes.p, f, t + 1, someTargetMissing)

\* a deletion of the ClusterRoleBindings that reports success and leaves them
EnsureClusterRoleBindingDeletedKeepsThem(p, f) ==
    Fallible(p, f, "EnsureClusterRoleBindingDeleted", 0)

\* stash_rbac.EnsureClusterRoleBindingDeleted
EnsureClusterRoleBindingDeleted(p, f) ==
    LET b == Fallible(p, f, "EnsureClusterRoleBindingDeleted", 0)
    IN  IF b.err # NoError
           THEN b
           ELSE [p |-> [b.p EXCEPT !.rbac = FALSE], err |-> NoError]

\* a deletion path that removes the finalizer whatever the steps before
\* it returned
DeleteOwnedFinalizerAnyway(p, f) ==
    LET c == EnsureBackupTriggeringCronJobDeleted(p, f)
        b == EnsureClusterRoleBindingDeleted(c.p, f)
    IN  RemoveFinalizer(b.p, f)

\* the deletion path once the sidecars are notified
DeleteOwned(p, f) ==
    LET c == EnsureBackupTriggeringCronJobDeleted(p, f)
        b == EnsureClusterRoleBindingDeleted(c.p, f)
    IN  IF c.err # NoError
           THEN c
           ELSE IF b.err # NoError
                   THEN b
                   ELSE RemoveFinalizer(b.p, f)

\* the deletion path: the loop over inv.TargetsInfo, from target t on
RECURSIVE DeleteLoop(_, _, _)
DeleteLoop(p, f, t) ==
    IF t > NumTargets
       THEN DeleteOwned(p, f)
       ELSE LET e == EnsureV1beta1SidecarDeleted(p, f, t)
            IN  IF e.err # NoError
                   THEN handleWorkloadControllerTriggerFailure(e.p, f, e.err)
                   ELSE DeleteLoop(e.p, f, t + 1)

\* a reconciliation that cleans up for an invoker under deletion whether it
\* has the finalizer or not
applyCleansUpWithoutFinalizer(p, f) ==
    IF deleting
       THEN DeleteLoop(p, f, 1)
       ELSE LET a == AddFinalizer(p, f)
                c == CheckRepositoryAndSecret(a.p, f)
            IN  IF a.err # NoError
                   THEN a
                   ELSE IF DefaultDriver
                           THEN IF c.ret
                                   THEN [p |-> c.p, err |-> c.err]
                                   ELSE TargetLoop(c.p, f, 1, FALSE)
                           ELSE TargetLoop(a.p, f, 1, FALSE)

\* a reconciliation that checks the repository and the backend secret
\* whatever the driver
applyChecksForEveryDriver(p, f) ==
    IF deleting
       THEN IF p.finalizer
               THEN DeleteLoop(p, f, 1)
               ELSE [p |-> p, err |-> NoError]
       ELSE LET a == AddFinalizer(p, f)
                c == CheckRepositoryAndSecret(a.p, f)
            IN  IF a.err # NoError
                   THEN a
                   ELSE IF c.ret
                           THEN [p |-> c.p, err |-> c.err]
                           ELSE TargetLoop(c.p, f, 1, FALSE)

applyBackupInvokerReconciliationLogic(p, f) ==
    IF deleting
       THEN IF p.finalizer
               THEN DeleteLoop(p, f, 1)
               ELSE [p |-> p, err |-> NoError]
       ELSE LET a == AddFinalizer(p, f)
                c == CheckRepositoryAndSecret(a.p, f)
            IN  IF a.err # NoError
                   THEN a
                   ELSE IF DefaultDriver
                           THEN IF c.ret
                                   THEN [p |-> c.p, err |-> c.err]
                                   ELSE TargetLoop(c.p, f, 1, FALSE)
                           ELSE TargetLoop(a.p, f, 1, FALSE)

\* the status update reads the object from the API server first: it fails
\* when the object went with its finalizer
UpdateBackupConfigurationStatus(p, f) ==
    IF p.stored
       THEN Fallible(p, f, "UpdateBackupConfigurationStatus", 0)
       ELSE [p |-> FallibleCall(p, "UpdateBackupConfigurationStatus", 0, ""),
             err |-> {<<"UpdateBackupConfigurationStatus", 0>>}]

\* what one pass starts from
PassStart ==
    [conds |-> conds, calls |-> <<>>, made |-> 0, requeues |-> <<>>, finalizer |-> finalizer,
     cronJob |-> cronJob, stored |-> bcStored, observedGeneration |-> observedGeneration,
     wl |-> wlQueue, rbac |-> rbac]

\* a pass that updates the status whatever
\* applyBackupInvokerReconciliationLogic returned
ProcessorPassAlwaysUpdates(f) ==
    LET k == Fallible(PassStart, f, "GetByKey", 0)
        x == Fallible(k.p, f, "ExtractBackupInvokerInfo", 0)
        a == applyBackupInvokerReconciliationLogic(x.p, f)
        u == UpdateBackupConfigurationStatus(a.p, f)
    IN  IF k.err # NoError
           THEN [p |-> k.p, err |-> k.err, applyErr |-> NoError]
           ELSE IF ~bcStored
                   THEN [p |-> k.p, err |-> NoError, applyErr |-> NoError]
                   ELSE IF x.err # NoError
                           THEN [p |-> x.p, err |-> x.err, applyErr |-> NoError]
                           ELSE IF u.err # NoError
                                   THEN [p |-> u.p, err |-> NewAggregate(a.err, u.err),
                                         applyErr |-> a.err]
                                   ELSE [p |-> [u.p EXCEPT !.observedGeneration = generation],
                                         err |-> a.err, applyErr |-> a.err]

\* one pass of the processor under the failures f; applyErr is what
\* applyBackupInvokerReconciliationLogic returned in it
ProcessorPass(f) ==
    LET k == Fallible(PassStart, f, "GetByKey", 0)
        x == Fallible(k.p, f, "ExtractBackupInvokerInfo", 0)
        a == applyBackupInvokerReconciliationLogic(x.p, f)
        u == UpdateBackupConfigurationStatus(a.p, f)
    IN  IF k.err # NoError
           THEN [p |-> k.p, err |-> k.err, applyErr |-> NoError]
           ELSE IF ~bcStored
                   THEN [p |-> k.p, err |-> NoError, applyErr |-> NoError]
                   ELSE IF x.err # NoError
                           THEN [p |-> x.p, err |-> x.err, applyErr |-> NoError]
                           ELSE IF a.err # NoError
                                   THEN [p |-> a.p, err |-> a.err, applyErr |-> a.err]
                                   ELSE IF u.err # NoError
                                           THEN [p |-> u.p, err |-> u.err, applyErr |-> NoError]
                                           ELSE [p |-> [u.p EXCEPT !.observedGeneration = generation],
                                                 err |-> NoError, applyErr |-> NoError]

\* a worker of bcQueue takes the key and runs one pass on it
runBackupConfigurationProcessor ==
    /\ queued
    /\ \E f \in FailureSets :
           \E r \in {ProcessorPass(f)} :
               /\ conds' = r.p.conds
               /\ finalizer' = r.p.finalizer
               /\ cronJob' = r.p.cronJob
               /\ bcStored' = r.p.stored
               /\ observedGeneration' = r.p.observedGeneration
               /\ lastCalls' = r.p.calls
               /\ lastRequeues' = r.p.requeues
               /\ lastApplyErr' = r.applyErr
               /\ lastErr' = r.err
               /\ wlQueue' = r.p.wl
               /\ rbac' = r.p.rbac
    /\ queued' = FALSE
    /\ UNCHANGED <<deleting, driver, repoState, secretState, targetState, generation, inv,
                   listed, ocConfigured, sidecar, procVars, electVars, fireVars, leaseVars, queueVars>>

\* the key comes back into bcQueue: an event or a resync of the informer,
\* the delay of a requeue that has passed, a retry of the queue
Enqueue ==
    /\ ~queued
    /\ queued' = TRUE
    /\ UNCHANGED <<bcStored, deleting, finalizer, driver, repoState, secretState, targetState,
                   conds, cronJob, generation, observedGeneration, lastCalls, lastRequeues,
                   lastApplyErr, lastErr, inv, wlQueue, listed, ocConfigured, sidecar, rbac,
                   procVars, electVars, fireVars, leaseVars, queueVars>>

\* the BackupConfiguration is deleted by its user: the deletion waits for
\* the finalizer, if there is one
DeleteInvoker ==
    /\ bcStored
    /\ ~deleting
    /\ deleting' = TRUE
    /\ bcStored' = finalizer
    /\ queued' = TRUE
    /\ UNCHANGED <<finalizer, driver, repoState, secretState, targetState, conds, cronJob,
                   generation, observedGeneration, lastCalls, lastRequeues, lastApplyErr,
                   lastErr, inv, wlQueue, listed, ocConfigured, sidecar, rbac,
                   procVars, electVars, fireVars, leaseVars, queueVars>>

\* the BackupConfiguration is deleted by its user before a pass has added
\* the finalizer, while a finalizer of another party (that of a foreground
\* deletion) holds it: the object stays, with its deletion timestamp set
DeleteInvokerHeld ==
    /\ bcStored
    /\ ~deleting
    /\ ~finalizer
    /\ deleting' = TRUE
    /\ queued' = TRUE
    /\ UNCHANGED <<bcStored, finalizer, driver, repoState, secretState, targetState, conds,
                   cronJob, generation, observedGeneration, lastCalls, lastRequeues,
                   lastApplyErr, lastErr, inv, wlQueue, listed, ocConfigured, sidecar, rbac,
                   procVars, electVars, fireVars, leaseVars, queueVars>>

\* the user changes one field of the spec of the BackupConfiguration: the API server
\* raises its generation and the informer puts the key into bcQueue
UpdateInvoker ==
    /\ bcStored
    /\ ~deleting
    /\ generation < MaxGeneration
    /\ \E i \in InvokerSpecs \ {inv} :
           /\ \E field \in DOMAIN inv : \A g \in DOMAIN inv \ {field} : i[g] = inv[g]
           /\ inv' = i
    /\ generation' = generation + 1
    /\ queued' = TRUE
    /\ UNCHANGED <<bcStored, deleting, finalizer, driver, repoState, secretState, targetState,
                   conds, cronJob, observedGeneration, lastCalls, lastRequeues, lastApplyErr,
                   lastErr, wlQueue, listed, ocConfigured, sidecar, rbac,
                   procVars, electVars, fireVars, leaseVars, queueVars>>

\* the controller of workload kind k takes a key from its queue and brings
\* the workload in line: the sidecar is there exactly if a BackupConfiguration
\* that is not being deleted targets the workload
WorkloadControllerSync(k) ==
    /\ \E name \in wlQueue[k] :
           /\ wlQueue' = [wlQueue EXCEPT ![k] = @ \ {name}]
           /\ sidecar' = [t \in Targets |->
                             IF t = name /\ TargetKind(t) = k /\ k \in SidecarKinds
                                THEN bcStored /\ ~deleting
                                ELSE sidecar[t]]
    /\ UNCHANGED <<bcStored, deleting, finalizer, driver, repoState, secretState, targetState,
                   conds, cronJob, generation, observedGeneration, queued, lastCalls,
                   lastRequeues, lastApplyErr, lastErr, inv, listed, ocConfigured, rbac,
                   procVars, electVars, fireVars, leaseVars, queueVars>>

\* the garbage collector of the cluster removes the CronJob once the
\* invoker that owns it is gone
GarbageCollect ==
    /\ ~bcStored
    /\ cronJob.exists
    /\ InvOwnerRef \in cronJob.owners
    /\ cronJob' = NoCronJob
    /\ UNCHANGED <<bcStored, deleting, finalizer, driver, repoState, secretState, targetState,
                   conds, generation, observedGeneration, queued, lastCalls, lastRequeues,
                   lastApplyErr, lastErr, inv, wlQueue, listed, ocConfigured, sidecar, rbac,
                   procVars, electVars, fireVars, leaseVars, queueVars>>

\* no key is in the BackupConfiguration queue, no worker is busy, no event
\* was sent to a workload queue
NoKey == 0
EmptyQueue == [queue |-> <<>>, dirty |-> {}, processing |-> {}]
NoEvent == [kind |-> "", name |-> 0, err |-> NoError, seq |-> FALSE]
NoRestore == [hostname |-> "", rules |-> <<>>, returned |-> FALSE]

QueueIdle ==
    /\ bcQueue = EmptyQueue
    /\ bcWorker = [w \in 1..NumThreads |-> NoKey]
    /\ bcDelayed = {}
    /\ sent = NoEvent
    /\ restore = NoRestore

\* no BackupConfiguration is being reconciled
ReconcilerIdle ==
    /\ QueueIdle
    /\ bcStored = FALSE
    /\ deleting = FALSE
    /\ finalizer = FALSE
    /\ driver = ""
    /\ repoState = "found"
    /\ secretState = "found"
    /\ targetState = [t \in Targets |-> "found"]
    /\ conds = NoConditions
    /\ cronJob = NoCronJob
    /\ generation = 1
    /\ observedGeneration = 0
    /\ queued = FALSE
    /\ lastCalls = <<>>
    /\ lastRequeues = <<>>
    /\ lastApplyErr = NoError
    /\ lastErr = NoError
    /\ inv = [paused |-> FALSE, schedule |-> "s1", serviceAccount |-> ""]
    /\ wlQueue = NoQueuedKeys
    /\ listed = {}
    /\ ocConfigured = FALSE
    /\ sidecar = [t \in Targets |-> FALSE]
    /\ rbac = FALSE

(***************************************************************************)
(* Specifications                                                          *)
(***************************************************************************)

InitController(kinds) ==
    /\ kind \in kinds
    /\ mpc = [r \in Replicas |-> "start"]
    /\ spc = [r \in Replicas |-> "none"]
    /\ cronRunning = [r \in Replicas |-> FALSE]
    /\ entries = [r \in Replicas |-> <<>>]
    /\ locked = [r \in Replicas |-> 0]
    /\ leaseHolder = 0
    /\ le = [r \in Replicas |-> "none"]
    /\ cb = [r \in Replicas |-> "none"]
    /\ ctxDone = [r \in Replicas |-> FALSE]
    /\ fpc = [r \in Replicas |-> [f \in Firings |-> "idle"]]
    /\ facq = [r \in Replicas |-> [f \in Firings |-> FALSE]]
    /\ fran = [r \in Replicas |-> [f \in Firings |-> FALSE]]
    /\ fres = [r \in Replicas |-> [f \in Firings |-> "none"]]
    /\ fcalls = [r \in Replicas |-> [f \in Firings |-> <<>>]]

\* the lease record before anybody wrote it
NoRecord == [holder |-> 0, renew |-> 0]

\* no election has started on the lease clock
LeaseIdle ==
    /\ now = 0
    /\ rec = NoRecord
    /\ lrole = [r \in Replicas |-> "candidate"]
    /\ nextTry = [r \in Replicas |-> 0]
    /\ obsRec = [r \in Replicas |-> NoRecord]
    /\ obsTime = [r \in Replicas |-> 0]
    /\ failStart = [r \in Replicas |-> 0]
    /\ lastRenew = [r \in Replicas |-> 0]
    /\ acquiredAt = [r \in Replicas |-> 0]
    /\ pred = [r \in Replicas |-> 0]

InitWith(kinds) ==
    /\ LeaseIdle
    /\ ReconcilerIdle
    /\ InitController(kinds)

\* One controller process of a workload kind that starts its scheduler
\* directly.
Init == InitWith(Kinds \ LeaderElectedKinds)

\* the steps of the scheduler of one controller process while its stop
\* channel is open
SchedulerStep(r) ==
    \/ CronStart(r)
    \/ PlaceToken(r)
    \/ CacheSync(r)
    \/ configureScheduler(r)

\* the steps of the leader election of one controller process
ElectionStep(r) ==
    \/ AcquireLease(r)
    \/ OnStartedLeading(r)
    \/ LoseLeadership(r)

\* the steps of one firing
FiringStep(r, f) ==
    \/ Fire(r, f)
    \/ BackupSelect(r, f)
    \/ BackupBody(r, f)
    \/ BackupRun(r, f)
    \/ CheckGet(r, f)
    \/ CheckSelect(r, f)
    \/ CheckRun(r, f)
    \/ Return(r, f)

\* One controller process (replica 1) with its scheduler and its firings.
Next ==
    \/ BackupScheduler(1)
    \/ SchedulerStep(1)
    \/ \E f \in Firings : FiringStep(1, f)

Spec == Init /\ [][Next]_vars

\* The replicas of one workload racing for the lease, each followed through
\* its first firing.
InitLeader == InitWith(Kinds)

\* The leader-election runs follow the firings whose steps all succeed up
\* to runResticBackup, under one schedule.
NextLeader ==
    \E r \in Replicas :
        \/ BackupScheduler(r)
        \/ ElectionStep(r)
        \/ CronStart(r)
        \/ PlaceToken(r)
        \/ CacheSync(r)
        \/ StopScheduler(r)
        \/ configureSchedulerWith(r, {"s1"})
        \/ Fire(r, 1)
        \/ BackupSelect(r, 1)
        \/ BackupBodyWith(r, 1, {Len(BackupSteps) + 1})
        \/ BackupRun(r, 1)
        \/ CheckGet(r, 1)
        \/ CheckSelect(r, 1)
        \/ CheckRun(r, 1)
        \/ Return(r, 1)

SpecLeader == InitLeader /\ [][NextLeader]_vars

\* One controller process whose Restic keeps one valid schedule: the cron
\* then holds the backup entry and the check entry throughout.
NextOneSchedule ==
    \/ BackupScheduler(1)
    \/ CronStart(1)
    \/ PlaceToken(1)
    \/ CacheSync(1)
    \/ configureSchedulerWith(1, {"s1"})
    \/ \E f \in Firings : FiringStep(1, f)

\* a step of a firing that holds the token
HolderStep(r) ==
    \E f \in Firings : BackupBody(r, f) \/ BackupRun(r, f) \/ CheckRun(r, f) \/ Return(r, f)

\* The goroutine of the firing that holds the token keeps running, and the
\* execution collaborators return (on their own or by their own timeout).
FairSpec == Init /\ [][NextOneSchedule]_vars /\ WF_vars(HolderStep(1))

(***************************************************************************)
(* The run lock                                                            *)
(***************************************************************************)

\* firing f of replica r is between its receive from c.locked and its
\* deferred send
Holding(r, f) == fpc[r][f] \in {"b_body", "b_run", "c_run", "ret"}

\* firing f of replica r is inside runResticBackup / resticCLI.Check
Executing(r, f) == fpc[r][f] \in {"b_run", "c_run"}

\* runScheduler has sent the initial token
TokenPlaced(r) == spc[r] \in {"sync", "run", "exit"}

Holders(r) == {f \in Firings : Holding(r, f)}

\* C1: at most one firing of a controller process holds the RunLock token,
\* so no two firings (backup and check, or two backups) are inside their
\* execution collaborators at the same time.
C1_MutualExclusion ==
    \A r \in Replicas :
        /\ Cardinality(Holders(r)) <= 1
        /\ Cardinality({f \in Firings : Executing(r, f)}) <= 1

\* C1 witness: a backup firing is inside runResticBackup while a check
\* firing and a second backup firing stand at their selects.
C1_Witness ==
    \E f, g, h \in Firings :
        /\ fpc[1][f] = "b_run"
        /\ fpc[1][g] = "c_select"
        /\ fpc[1][h] = "b_select"

\* C2: a firing that finds the token unavailable returns nil at once: its
\* select step is always enabled, it leaves the channel and every other
\* firing untouched, it makes no collaborator call, it is finished for good
\* (nothing is queued for later); and the firings that executed their
\* collaborator are never more than those that acquired the token.
C2_SkipStep(r, f) ==
    (fpc[r][f] \in {"b_select", "c_select"} /\ ~TokenAvailable(r) /\ fpc'[r][f] # fpc[r][f])
        => /\ fpc'[r][f] = "done"
           /\ fres'[r][f] = "nil"
           /\ locked' = locked
           /\ ~facq'[r][f] /\ ~fran'[r][f]
           /\ fcalls'[r][f] = fcalls[r][f]

C2_Skipped(r, f) == fpc[r][f] = "done" /\ ~facq[r][f]

C2_SkipIsFinal ==
    [][\A r \in Replicas, f \in Firings :
        /\ C2_SkipStep(r, f)
        /\ C2_Skipped(r, f) => (C2_Skipped(r, f))' /\ fran'[r][f] = fran[r][f]]_vars

C2_ExecutionsWithinAcquisitions ==
    \A r \in Replicas :
        /\ \A f \in Firings : fran[r][f] => facq[r][f]
        /\ Cardinality({f \in Firings : fran[r][f]}) <= Cardinality({f \in Firings : facq[r][f]})
        /\ \A f \in Firings :
            fpc[r][f] \in {"b_select", "c_select"} => ENABLED (BackupSelect(r, f) \/ CheckSelect(r, f))

C2_SkipWithoutEffect == C2_SkipIsFinal /\ []C2_ExecutionsWithinAcquisitions

\* C2 witness: while one firing holds the token, a backup firing and a
\* check firing have been skipped.
C2_Witness ==
    \E f, g, h \in Firings :
        /\ Holding(1, f)
        /\ fpc[1][g] = "done" /\ ~facq[1][g] /\ fres[1][g] = "nil" /\ fcalls[1][g] = <<>>
        /\ fpc[1][h] = "done" /\ ~facq[1][h] /\ fres[1][h] = "nil" /\ fcalls[1][h] = <<"Repositories.Get">>
        /\ locked[1] = 0

\* C3: every firing that acquired the token sends it back when it returns,
\* whatever the exit path: once the initial token is placed, the token is in
\* the channel whenever no firing is between acquire and return, and a
\* firing that holds the token leads to a state where it is available again.
C3_TokenBackWhenIdle ==
    \A r \in Replicas : (TokenPlaced(r) /\ Holders(r) = {}) => locked[r] = 1

C3_ReleaseOnEveryPath ==
    /\ []C3_TokenBackWhenIdle
    /\ (Holders(1) # {}) ~> (locked[1] = 1)

\* C3 witness: a firing that acquired the token returned an error and the
\* token is back in the channel.
C3_Witness ==
    \E f \in Firings :
        /\ fpc[1][f] = "done" /\ facq[1][f] /\ fres[1][f] = "err" /\ ~fran[1][f]
        /\ locked[1] = 1

(***************************************************************************)
(* The leader-election gate                                                *)
(***************************************************************************)

\* The goroutines started on acquiring leadership get to run.
StartStep(r) == OnStartedLeading(r) \/ CronStart(r) \/ PlaceToken(r)

\* The replicas racing for the lease and starting their schedulers, the
\* firings left out.
NextElection ==
    \E r \in Replicas :
        \/ BackupScheduler(r)
        \/ ElectionStep(r)
        \/ CronStart(r)
        \/ PlaceToken(r)
        \/ CacheSync(r)
        \/ StopScheduler(r)
        \/ configureScheduler(r)

FairSpecLeader ==
    /\ InitLeader
    /\ [][NextElection]_vars
    /\ \A r \in Replicas : WF_vars(StartStep(r))

\* the replica acquired the lease at some point
HasLed(r) == le[r] \in {"leading", "stopped"}

\* the cron of the replica runs and has entries to fire
ActiveCron(r) == cronRunning[r] /\ entries[r] # <<>>

\* C4: after a replica lost leadership (its leading context is cancelled)
\* no firing starts on it.
C4_NoFiringAfterLoss ==
    [][\A r \in Replicas, f \in Firings :
        (ctxDone[r] /\ fpc[r][f] = "idle") => fpc'[r][f] = "idle"]_vars

\* C5: among the replicas of a Deployment / ReplicaSet /
\* ReplicationController at most one has a cron that can fire.
C5_SingleActiveCron ==
    kind \in LeaderElectedKinds => Cardinality({r \in Replicas : ActiveCron(r)}) <= 1

\* C6 as claimed: whatever c.setup() returned, a replica whose leadership
\* callback has returned has its scheduler started (nothing else would
\* start it later).
C6_SchedulerStartedWhateverSetup ==
    \A r \in Replicas : cb[r] \in {"started", "failed"} => spc[r] # "none"

\* C6 amended: a replica that acquires leadership runs the callback; when
\* c.setup() succeeds the replica eventually has its cron started and the
\* token placed; when c.setup() fails no scheduler is started on it.
C6_SchedulerStartedAfterSetup ==
    /\ \A r \in Replicas :
        (cb[r] = "pending") ~> (cb[r] = "failed" \/ (cronRunning[r] /\ TokenPlaced(r)))
    /\ \A r \in Replicas :
        [](cb[r] = "started" => <>(cronRunning[r] /\ TokenPlaced(r)))
    /\ [](\A r \in Replicas : cb[r] = "failed" => (spc[r] = "none" /\ ~cronRunning[r]))

\* C6 witness: the lease holder's callback succeeded and its scheduler runs
\* with the token placed.
C6_Witness ==
    \E r \in Replicas :
        /\ leaseHolder = r /\ le[r] = "leading" /\ cb[r] = "started"
        /\ cronRunning[r] /\ TokenPlaced(r) /\ locked[r] = 1

\* C7: for Deployment, ReplicaSet and ReplicationController the scheduler
\* is started only on a replica that acquired the lease; for every other
\* kind no lease is involved and BackupScheduler starts the scheduler itself.
C7_GateExactlyForScaledKinds ==
    \A r \in Replicas :
        IF kind \in {"Deployment", "ReplicaSet", "ReplicationController"}
        THEN /\ spc[r] # "none" => HasLed(r)
             /\ mpc[r] = "blocked" => le[r] # "none"
        ELSE /\ le[r] = "none" /\ cb[r] = "none" /\ leaseHolder = 0
             /\ mpc[r] = "blocked" => spc[r] # "none"

\* C7 witness: of two ReplicationController replicas one leads and runs
\* the scheduler, the other still waits for the lease with no scheduler.
C7_Witness ==
    /\ kind = "ReplicationController"
    /\ \E r, q \in Replicas :
        /\ le[r] = "leading" /\ spc[r] = "run"
        /\ le[q] = "acquiring" /\ spc[q] = "none" /\ ~cronRunning[q]


(***************************************************************************)
(* The lease clock: leaderelection.RunOrDie under the LeaseDuration,       *)
(* RenewDeadline and RetryPeriod that electLeader passes to it             *)
(***************************************************************************)

\* tryAcquireOrRenew of replica r has read the record: a record that differs
\* from the one it observed last is observed now
ObservedTimeAfterGet(r) == IF obsRec[r] # rec THEN now ELSE obsTime[r]

\* tryAcquireOrRenew: the lock is held and has not yet expired for replica r
HeldAndNotExpired(r) ==
    /\ rec.holder # 0
    /\ ObservedTimeAfterGet(r) + LeaseDuration > now

\* the waits of a candidate between two tries (wait.JitterUntil)
RetryIntervals == RetryPeriod..(RetryPeriod + MaxJitter)

\* LeaderElector.acquire: one try of candidate r; it becomes the leader when
\* the record is free or has expired for it
acquire(r) ==
    /\ lrole[r] = "candidate"
    /\ nextTry[r] = now
    /\ IF HeldAndNotExpired(r)
          THEN /\ obsRec' = [obsRec EXCEPT ![r] = rec]
               /\ obsTime' = [obsTime EXCEPT ![r] = ObservedTimeAfterGet(r)]
               /\ \E i \in RetryIntervals : nextTry' = [nextTry EXCEPT ![r] = now + i]
               /\ UNCHANGED <<rec, lrole, lastRenew, acquiredAt, pred>>
          ELSE /\ rec' = [holder |-> r, renew |-> now]
               /\ obsRec' = [obsRec EXCEPT ![r] = rec']
               /\ obsTime' = [obsTime EXCEPT ![r] = now]
               /\ lrole' = [lrole EXCEPT ![r] = "leader"]
               /\ nextTry' = [nextTry EXCEPT ![r] = now + RetryPeriod]
               /\ lastRenew' = [lastRenew EXCEPT ![r] = now]
               /\ acquiredAt' = [acquiredAt EXCEPT ![r] = now]
               /\ pred' = [pred EXCEPT ![r] = rec.holder]
    /\ UNCHANGED <<now, failStart, procVars, electVars, fireVars, reconVars, queueVars>>

\* LeaderElector.renew: the leader writes the record every RetryPeriod
renew(r) ==
    /\ lrole[r] = "leader"
    /\ nextTry[r] = now
    /\ rec' = [holder |-> r, renew |-> now]
    /\ obsRec' = [obsRec EXCEPT ![r] = rec']
    /\ obsTime' = [obsTime EXCEPT ![r] = now]
    /\ nextTry' = [nextTry EXCEPT ![r] = now + RetryPeriod]
    /\ lastRenew' = [lastRenew EXCEPT ![r] = now]
    /\ UNCHANGED <<now, lrole, failStart, acquiredAt, pred, procVars, electVars, fireVars, reconVars, queueVars>>

\* the leader stops renewing: from its next renewal on, its writes fail
StopRenewing(r) ==
    /\ lrole[r] = "leader"
    /\ lrole' = [lrole EXCEPT ![r] = "cut"]
    /\ failStart' = [failStart EXCEPT ![r] = nextTry[r]]
    /\ UNCHANGED <<now, rec, nextTry, obsRec, obsTime, lastRenew, acquiredAt, pred,
                   procVars, electVars, fireVars, reconVars, queueVars>>

\* the moment the leader that stopped renewing gives up: RenewDeadline after
\* the start of the renewal that fails
GiveUpTime(r) == failStart[r] + RenewDeadline

\* LeaderElector.renew: the renewal has failed for RenewDeadline, the
\* replica stops leading
GiveUp(r) ==
    /\ lrole[r] = "cut"
    /\ now = GiveUpTime(r)
    /\ lrole' = [lrole EXCEPT ![r] = "stopped"]
    /\ UNCHANGED <<now, rec, nextTry, obsRec, obsTime, failStart, lastRenew, acquiredAt, pred,
                   procVars, electVars, fireVars, reconVars, queueVars>>

\* replica r has something to do at the present time
Due(r) ==
    \/ lrole[r] \in {"candidate", "leader"} /\ nextTry[r] = now
    \/ lrole[r] = "cut" /\ now = GiveUpTime(r)

\* a second passes, once every replica has done what is due
Tick ==
    /\ now < MaxTime
    /\ \A r \in Replicas : ~Due(r)
    /\ now' = now + 1
    /\ UNCHANGED <<rec, lrole, nextTry, obsRec, obsTime, failStart, lastRenew, acquiredAt, pred,
                   procVars, electVars, fireVars, reconVars, queueVars>>

\* the replicas of a Deployment start campaigning within the first RetryPeriod
InitLease ==
    /\ InitController({"Deployment"})
    /\ ReconcilerIdle
    /\ now = 0
    /\ rec = NoRecord
    /\ lrole = [r \in Replicas |-> "candidate"]
    /\ nextTry \in [Replicas -> 0..(RetryPeriod - 1)]
    /\ obsRec = [r \in Replicas |-> NoRecord]
    /\ obsTime = [r \in Replicas |-> 0]
    /\ failStart = [r \in Replicas |-> 0]
    /\ lastRenew = [r \in Replicas |-> 0]
    /\ acquiredAt = [r \in Replicas |-> 0]
    /\ pred = [r \in Replicas |-> 0]

NextLease ==
    \/ Tick
    \/ \E r \in Replicas : acquire(r) \/ renew(r) \/ StopRenewing(r) \/ GiveUp(r)

SpecLease == InitLease /\ [][NextLease]_vars

\* replica p stopped renewing and still is the holder on record
StalledHolder(p) == lrole[p] \in {"cut", "stopped"} /\ rec.holder = p

\* some replica keeps retrying to acquire
SomeCandidate == \E c \in Replicas : lrole[c] = "candidate"

\* replica r took the lease over from another replica
TookOver(r) == pred[r] # 0

InitReconcile ==
    /\ InitController({"StatefulSet"})
    /\ LeaseIdle
    /\ QueueIdle
    /\ bcStored = TRUE
    /\ deleting = FALSE
    /\ finalizer = FALSE
    /\ driver \in Drivers
    /\ repoState \in LookupAnswers
    /\ secretState \in LookupAnswers
    /\ targetState \in [Targets -> LookupAnswers]
    /\ conds = NoConditions
    /\ cronJob = NoCronJob
    /\ generation = 1
    /\ observedGeneration = 0
    /\ queued = TRUE
    /\ lastCalls = <<>>
    /\ lastRequeues = <<>>
    /\ lastApplyErr = NoError
    /\ lastErr = NoError
    /\ inv = [paused |-> FALSE, schedule |-> "s1", serviceAccount |-> ""]
    /\ wlQueue = NoQueuedKeys
    /\ listed = {<<TargetKind(t), t>> : t \in {x \in Targets : targetState[x] = "found"}}
    /\ ocConfigured = FALSE
    /\ sidecar = [t \in Targets |-> FALSE]
    /\ rbac = FALSE

NextReconcile ==
    \/ runBackupConfigurationProcessor
    \/ Enqueue
    \/ DeleteInvoker

SpecReconcile == InitReconcile /\ [][NextReconcile]_vars

\* the step is a pass on an invoker that exists and is not being deleted
PassOnLiveInvoker == queued /\ ~queued' /\ bcStored /\ ~deleting

\* no lookup answers an error other than not found
NoLookupError ==
    /\ repoState # "error"
    /\ secretState # "error"
    /\ \A t \in Targets : targetState[t] # "error"

MissingTargets == {t \in Targets : targetState[t] = "missing"}

\* the last pass made the call
Made(call) == \E i \in 1..Len(lastCalls) : lastCalls[i] = call

\* C9 as claimed: a pass on an invoker that is not being deleted and whose
\* repository, backend secret or some target is missing, with no lookup
\* error, returns no error, has set the condition of the missing dependency
\* to False and schedules exactly one requeue after RequeueDelay.
C9_MissingDependencyRequeuedOnce ==
    [][(PassOnLiveInvoker /\ NoLookupError
            /\ (repoState = "missing" \/ secretState = "missing" \/ MissingTargets # {}))
        => /\ lastErr' = NoError
           /\ lastRequeues' = <<RequeueDelay>>
           /\ IF repoState = "missing"
                 THEN conds'[<<"RepositoryFound", 0>>] = "False"
                 ELSE IF secretState = "missing"
                         THEN conds'[<<"BackendSecretFound", 0>>] = "False"
                         ELSE \A t \in MissingTargets : conds'[<<"BackupTargetFound", t>>] = "False"]_vars

\* the dependency the pass finds missing: the repository or the backend
\* secret under the default driver, else the targets
RepositoryMissing == DefaultDriver /\ repoState = "missing"
SecretMissing == DefaultDriver /\ repoState = "found" /\ secretState = "missing"
SomeTargetMissing ==
    /\ DefaultDriver => (repoState = "found" /\ secretState = "found")
    /\ MissingTargets # {}

\* C9 amended: the dependency is one the pass looks up (repository and
\* backend secret only under the default driver), and the pass returns no
\* error unless a collaborator call of its own fails: with no error the
\* condition of the missing dependency is False and exactly one requeue
\* after RequeueDelay is scheduled, however many targets are missing; with
\* an error, the error is that of the failed calls and at most one requeue
\* is scheduled.
C9_LookedUpDependencyRequeuedOnce ==
    [][(PassOnLiveInvoker /\ NoLookupError
            /\ (RepositoryMissing \/ SecretMissing \/ SomeTargetMissing))
        => /\ lastErr' \subseteq FallibleCalls
           /\ Len(lastRequeues') <= 1
           /\ ~Made(<<"EnsureBackupTriggeringCronJob", 0, "">>)'
           /\ lastErr' = NoError =>
                  /\ lastRequeues' = <<RequeueDelay>>
                  /\ RepositoryMissing => conds'[<<"RepositoryFound", 0>>] = "False"
                  /\ SecretMissing => conds'[<<"BackendSecretFound", 0>>] = "False"
                  /\ SomeTargetMissing =>
                         \A t \in MissingTargets : conds'[<<"BackupTargetFound", t>>] = "False"]_vars

\* the last pass found every target missing, set each condition to False
\* and scheduled its one requeue
C9_Witness ==
    /\ ~deleting
    /\ MissingTargets = Targets
    /\ lastErr = NoError
    /\ lastRequeues = <<RequeueDelay>>
    /\ \A t \in Targets : conds[<<"BackupTargetFound", t>>] = "False"

\* the last pass made the lookup, the lookup failed with an error other
\* than not found: the setter of the condition was called with Unknown and
\* the condition is Unknown unless that write failed, the error returned
\* holds the lookup error, no requeue is scheduled and the CronJob is not
\* ensured
LookupErrorHandled(lookup, t, setter, type) ==
    Made(<<lookup, t, "error">>) =>
        /\ Made(<<setter, t, "Unknown">>)
        /\ <<setter, t>> \notin lastErr => conds[<<type, t>>] = "Unknown"
        /\ <<lookup, t>> \in lastErr
        /\ <<lookup, t>> \in lastApplyErr
        /\ lastRequeues = <<>>
        /\ ~Made(<<"EnsureBackupTriggeringCronJob", 0, "">>)

\* C10: a repository lookup, backend secret lookup or target probe that
\* fails with an error other than not found makes the pass set the
\* condition of that dependency to Unknown, return an error that holds the
\* lookup error, schedule no requeue and leave the CronJob alone.
C10_LookupErrorSurfaced ==
    /\ LookupErrorHandled("Repositories.Get", 0, "SetRepositoryFoundCondition", "RepositoryFound")
    /\ LookupErrorHandled("Secrets.Get", 0, "SetBackendSecretFoundCondition", "BackendSecretFound")
    /\ \A t \in Targets :
           LookupErrorHandled("IsTargetExist", t, "SetBackupTargetFoundCondition", "BackupTargetFound")

\* the last pass hit a repository lookup error and returned it, the
\* condition being Unknown
C10_Witness ==
    /\ Made(<<"Repositories.Get", 0, "error">>)
    /\ conds[<<"RepositoryFound", 0>>] = "Unknown"
    /\ <<"Repositories.Get", 0>> \in lastErr

\* the pass probes the targets: the repository and backend secret checks
\* are passed, or skipped for a driver that is not the default one
TargetsProbed == DefaultDriver => (repoState = "found" /\ secretState = "found")

\* the reconciliation of the last pass ran to its end with no call failing
\* (the write of the observed generation after it may have failed)
ReconciledWithoutFailure == lastErr \subseteq {<<"UpdateBackupConfigurationStatus", 0>>}

\* the BackupTargetFound condition of every target tells what its probe answered
TargetConditionsTellProbes ==
    \A t \in Targets :
        conds[<<"BackupTargetFound", t>>] = IF targetState[t] = "found" THEN "True" ELSE "False"

\* the last pass left the CronJobCreated condition alone
NoCronJobConditionWritten ==
    \A v \in {"True", "False", "Unknown"} : ~Made(<<"SetCronJobCreatedCondition", 0, v>>)

\* C11 as claimed: in a pass with no lookup error every target gets its
\* own BackupTargetFound condition, True if it exists and False if it is
\* missing; and if a target is missing the CronJob is left as it was, no
\* CronJobCreated condition is written and a requeue is scheduled.
C11_EveryTargetGetsItsCondition ==
    [][(PassOnLiveInvoker /\ NoLookupError)
        => /\ TargetConditionsTellProbes'
           /\ MissingTargets # {} =>
                  /\ cronJob' = cronJob
                  /\ NoCronJobConditionWritten'
                  /\ lastRequeues' # <<>>]_vars

\* C11 amended: the same of a pass that reaches the probes of the targets
\* (repository and backend secret found, or not checked) and in which no
\* collaborator call fails; and whatever fails, a pass with a missing
\* target and no lookup error leaves the CronJob and the CronJobCreated
\* condition alone.
C11_EveryProbedTargetGetsItsCondition ==
    [][(PassOnLiveInvoker /\ NoLookupError)
        => /\ MissingTargets # {} =>
                  /\ cronJob' = cronJob
                  /\ ~Made(<<"EnsureBackupTriggeringCronJob", 0, "">>)'
                  /\ NoCronJobConditionWritten'
                  /\ conds'[<<"CronJobCreated", 0>>] = conds[<<"CronJobCreated", 0>>]
           /\ (TargetsProbed /\ ReconciledWithoutFailure') =>
                  /\ TargetConditionsTellProbes'
                  /\ MissingTargets # {} => lastRequeues' = <<RequeueDelay>>]_vars

\* the first pass on an invoker whose first target exists and whose last
\* target is missing: True for the one, False for the other, no
\* CronJobCreated condition, no CronJob, one requeue
C11_Witness ==
    /\ targetState[1] = "found"
    /\ targetState[NumTargets] = "missing"
    /\ NoLookupError
    /\ conds[<<"BackupTargetFound", 1>>] = "True"
    /\ conds[<<"BackupTargetFound", NumTargets>>] = "False"
    /\ conds[<<"CronJobCreated", 0>>] = "none"
    /\ ~cronJob.exists
    /\ lastRequeues = <<RequeueDelay>>
    /\ lastErr = NoError

(***************************************************************************)
(* The trigger schedule (CronJob) of one BackupConfiguration over its      *)
(* life: all its dependencies exist, its user edits and deletes it         *)
(* (SpecTrigger); and its deletion, with the workload controllers and the  *)
(* garbage collector of the cluster running (SpecDeletion).                *)
(***************************************************************************)

InitLifecycle(listers, cronJobs) ==
    /\ LeaseIdle
    /\ QueueIdle
    /\ InitController({"StatefulSet"})
    /\ driver = ""
    /\ repoState = "found"
    /\ secretState = "found"
    /\ targetState = [t \in Targets |-> "found"]
    /\ bcStored = TRUE
    /\ deleting = FALSE
    /\ finalizer = FALSE
    /\ conds = NoConditions
    /\ cronJob \in cronJobs
    /\ generation = 1
    /\ observedGeneration = 0
    /\ queued = TRUE
    /\ lastCalls = <<>>
    /\ lastRequeues = <<>>
    /\ lastApplyErr = NoError
    /\ lastErr = NoError
    /\ inv = [paused |-> FALSE, schedule |-> "s1", serviceAccount |-> ""]
    /\ wlQueue = NoQueuedKeys
    /\ listed \in listers
    /\ ocConfigured = FALSE
    /\ sidecar = [t \in Targets |-> FALSE]
    /\ rbac = FALSE

\* the workloads of the targets
TargetWorkloads == {<<TargetKind(t), t>> : t \in Targets}

InitTrigger == InitLifecycle({TargetWorkloads}, {NoCronJob})

NextTrigger ==
    \/ runBackupConfigurationProcessor
    \/ Enqueue
    \/ UpdateInvoker
    \/ DeleteInvoker

SpecTrigger == InitTrigger /\ [][NextTrigger]_vars

\* the listers may lag behind the cluster, and a CronJob of the name of the
\* trigger may be there already
InitDeletion == InitLifecycle(SUBSET TargetWorkloads, {NoCronJob, OrphanCronJob})

NextDeletion ==
    \/ runBackupConfigurationProcessor
    \/ Enqueue
    \/ DeleteInvoker
    \/ \E k \in DispatchKinds : WorkloadControllerSync(k)
    \/ GarbageCollect

SpecDeletion == InitDeletion /\ [][NextDeletion]_vars

\* the last pass went through without error and ensured the CronJob, and
\* the invoker has not changed since
ReconciledAndUnchanged ==
    /\ lastErr = NoError
    /\ Made(<<"EnsureBackupTriggeringCronJob", 0, "">>)
    /\ observedGeneration = generation
    /\ cronJob.exists

\* C12: a pass on an invoker whose last pass ensured the CronJob, and that
\* has not changed since, leaves the CronJob (schedule, suspend flag,
\* owner reference, labels, container, service account, image pull
\* secrets) as that pass left it, and sends no patch for it
C12_ReconciliationIdempotent ==
    [][(PassOnLiveInvoker /\ ReconciledAndUnchanged)
        => /\ cronJob' = cronJob
           /\ ~Made(<<"CreateOrPatchCronJob", 0, "patched">>)'
           /\ ~Made(<<"CreateOrPatchCronJob", 0, "created">>)']_vars

\* a second pass on the unchanged invoker has ensured its CronJob
C12_Witness ==
    /\ ReconciledAndUnchanged
    /\ Made(<<"CreateOrPatchCronJob", 0, "unchanged">>)
    /\ cronJob = CronJobTransform(NoCronJob) \/ inv.paused
    /\ cronJob.suspend = inv.paused

\* a pass that enters the deletion path: the object is there with its
\* deletion requested and the finalizer present, and is read and extracted
PassOnDeletingInvoker ==
    /\ queued /\ ~queued'
    /\ bcStored /\ deleting /\ finalizer
    /\ Len(lastCalls') > 2

\* the names of the calls of the last pass
CallNames == [i \in 1..Len(lastCalls) |-> <<lastCalls[i][1], lastCalls[i][2]>>]

\* the steps of the deletion path on CronJob cj, in the order of the code
DeletionSteps(cj) ==
    [t \in Targets |-> <<"EnsureV1beta1SidecarDeleted", t>>]
        \o <<<<"CronJobs.Get", 0>>>>
        \o (IF cj.exists THEN <<<<"PatchCronJob", 0>>>> ELSE <<>>)
        \o <<<<"EnsureClusterRoleBindingDeleted", 0>>, <<"RemoveFinalizer", 0>>>>

\* the calls of the last pass after the object was read and extracted, up
\* to the status update
PathCalls ==
    SubSeq(CallNames, 3,
           IF CallNames[Len(CallNames)] = <<"UpdateBackupConfigurationStatus", 0>>
              THEN Len(CallNames) - 1
              ELSE Len(CallNames))

IsPrefix(a, b) == Len(a) <= Len(b) /\ SubSeq(b, 1, Len(a)) = a

\* C13: on the deletion path the finalizer is removed only when the sidecar
\* removal of every target, EnsureBackupTriggeringCronJobDeleted and
\* EnsureClusterRoleBindingDeleted were called in that order and none
\* failed; a step that fails ends the pass with its error and the finalizer
\* in place; and every pass on the path starts with its first step.
C13_FinalizerRemovedAfterAllSteps ==
    [][PassOnDeletingInvoker
        => /\ IsPrefix(PathCalls', DeletionSteps(cronJob))
           /\ PathCalls' # <<>>
           /\ ~finalizer' <=> (PathCalls' = DeletionSteps(cronJob) /\ lastApplyErr' = NoError)
           /\ lastApplyErr' # NoError
                  => /\ finalizer'
                     /\ bcStored'
                     /\ lastErr' = lastApplyErr'
                     /\ lastApplyErr' = {PathCalls'[Len(PathCalls')]}]_vars

\* a deletion pass on an invoker with a CronJob went through all the steps
\* and removed the finalizer
C13_Witness ==
    /\ deleting
    /\ ~finalizer
    /\ ~bcStored
    /\ Len(lastCalls) > 2
    /\ PathCalls = DeletionSteps(cronJob)
    /\ cronJob.exists

\* the reconciler has removed the finalizer in the last pass
FinalizerRemoved ==
    /\ deleting
    /\ ~finalizer
    /\ Made(<<"RemoveFinalizer", 0, "">>)
    /\ <<"RemoveFinalizer", 0>> \notin lastErr

\* C14 as claimed: once the reconciler has removed the finalizer no injected
\* sidecar, no CronJob and no ClusterRoleBinding of the invoker exists.
C14_NothingOwnedLeftAtRemoval ==
    FinalizerRemoved
        => /\ \A t \in Targets : ~sidecar[t]
           /\ ~cronJob.exists
           /\ ~rbac

\* C14: once the reconciler has removed the finalizer, the
\* ClusterRoleBindings of the invoker are deleted, the CronJob, if it is
\* still there, has the invoker as owner (so that the garbage collector
\* removes it), and of every target whose workload is in its lister the
\* sidecar is gone or the key of the workload is in the queue of its
\* controller.
C14_TeardownInitiatedAtRemoval ==
    FinalizerRemoved
        => /\ ~rbac
           /\ cronJob.exists => InvOwnerRef \in cronJob.owners
           /\ \A t \in Targets :
                  ListerHas(TargetKind(t), t) => (~sidecar[t] \/ t \in wlQueue[TargetKind(t)])

\* the finalizer was removed while the CronJob and an injected sidecar are
\* still there
C14_Witness ==
    /\ FinalizerRemoved
    /\ cronJob.exists
    /\ \E t \in Targets : sidecar[t] /\ t \in wlQueue[TargetKind(t)]

\* a pass on the deletion path in which EnsureBackupTriggeringCronJobDeleted
\* was called and returned no error
CronJobDeletionEnsured ==
    /\ PassOnDeletingInvoker
    /\ Made(<<"CronJobs.Get", 0, "">>)'
    /\ lastErr' \cap {<<"CronJobs.Get", 0>>, <<"PatchCronJob", 0>>} = {}

\* C15 as claimed: after EnsureBackupTriggeringCronJobDeleted returned
\* success on an existing CronJob, the CronJob does not carry the invoker as
\* owner; on an absent CronJob it changes nothing.
C15_DeletionStripsOwnership ==
    [][CronJobDeletionEnsured
        => IF cronJob.exists
              THEN InvOwnerRef \notin cronJob'.owners
              ELSE cronJob' = cronJob]_vars

\* C15: after EnsureBackupTriggeringCronJobDeleted returned success on an
\* existing CronJob, the CronJob carries the invoker as owner and is
\* otherwise as it was; on an absent CronJob no patch is sent and nothing
\* changes.
C15_DeletionEnsuresOwnership ==
    [][CronJobDeletionEnsured
        => IF cronJob.exists
              THEN /\ Made(<<"PatchCronJob", 0, "">>)'
                   /\ cronJob' = [cronJob EXCEPT !.owners = @ \cup {InvOwnerRef}]
              ELSE /\ ~Made(<<"PatchCronJob", 0, "">>)'
                   /\ cronJob' = cronJob]_vars

\* the deletion path has put the owner reference onto a CronJob that never
\* had it
C15_Witness ==
    /\ FinalizerRemoved
    /\ Made(<<"PatchCronJob", 0, "">>)
    /\ cronJob = [OrphanCronJob EXCEPT !.owners = {InvOwnerRef}]

\* EnsureBackupTriggeringCronJob returned success in the last pass
EnsureSucceeded ==
    \E verb \in {"created", "patched", "unchanged"} : Made(<<"CreateOrPatchCronJob", 0, verb>>)

\* EnsureBackupTriggeringCronJob returned an error in the last pass
EnsureFailed == <<"EnsureBackupTriggeringCronJob", 0>> \in lastErr

\* C16: after every pass in which EnsureBackupTriggeringCronJob returned
\* success the CronJob has the schedule of the invoker and is suspended
\* exactly if the invoker is paused, whatever the CronJob and the invoker
\* were before; a CronJob created for a paused invoker is suspended.
C16_SuspendMirrorsPaused ==
    [][(PassOnLiveInvoker /\ EnsureSucceeded')
        => /\ cronJob'.exists
           /\ cronJob'.suspend = inv.paused
           /\ cronJob'.schedule = inv.schedule
           /\ (inv.paused /\ ~cronJob.exists)
                  => (cronJob'.suspend /\ Made(<<"CreateOrPatchCronJob", 0, "created">>)')]_vars

\* the invoker was paused after its CronJob had been created, and the next
\* successful pass has patched the CronJob to suspended
C16_Witness ==
    /\ Made(<<"CreateOrPatchCronJob", 0, "patched">>)
    /\ generation = 2
    /\ inv.paused
    /\ cronJob.suspend
    /\ cronJob.schedule = inv.schedule

\* C17: the CronJobCreated condition is set to True only in a pass in which
\* EnsureBackupTriggeringCronJob returned success; a pass in which it
\* failed sets the condition to False (stored as False unless that write
\* fails), writes the warning event, returns an error made of the error of
\* the ensure and those of the two writes, and never sets True.
C17_CreatedConditionFollowsEnsure ==
    [][PassOnLiveInvoker
        => /\ Made(<<"SetCronJobCreatedCondition", 0, "True">>)'
                  => (EnsureSucceeded' /\ ~EnsureFailed')
           /\ conds'[<<"CronJobCreated", 0>>] = "True"
                  => (EnsureSucceeded' \/ conds[<<"CronJobCreated", 0>>] = "True")
           /\ EnsureFailed'
                  => /\ Made(<<"SetCronJobCreatedCondition", 0, "False">>)'
                     /\ ~Made(<<"SetCronJobCreatedCondition", 0, "True">>)'
                     /\ Made(<<"CreateEvent", 0, "">>)'
                     /\ lastErr' = lastApplyErr'
                     /\ lastErr' \subseteq {<<"EnsureBackupTriggeringCronJob", 0>>,
                                             <<"SetCronJobCreatedCondition", 0>>,
                                             <<"CreateEvent", 0>>}
                     /\ <<"SetCronJobCreatedCondition", 0>> \notin lastErr'
                            => conds'[<<"CronJobCreated", 0>>] = "False"
                     /\ cronJob' = cronJob]_vars

\* the CronJob had been created and recorded, then a pass failed to ensure
\* it and has turned the condition to False
C17_Witness ==
    /\ EnsureFailed
    /\ cronJob.exists
    /\ InvOwnerRef \in cronJob.owners
    /\ conds[<<"CronJobCreated", 0>>] = "False"
    /\ Made(<<"CreateEvent", 0, "">>)

\* a worker has run a pass on the key
PassOnKey == queued /\ ~queued'

\* the last pass got to applyBackupInvokerReconciliationLogic
Reconciled ==
    /\ Made(<<"ExtractBackupInvokerInfo", 0, "">>)
    /\ <<"ExtractBackupInvokerInfo", 0>> \notin lastErr

\* how often the last pass called UpdateBackupConfigurationStatus
StatusUpdates ==
    Cardinality({i \in 1..Len(lastCalls) : lastCalls[i][1] = "UpdateBackupConfigurationStatus"})

\* C19: a pass whose reconciliation returned no error calls the status
\* update once, and the update, unless it fails itself, leaves
\* observedGeneration at the generation of the object; a pass that returned
\* an error before, and a pass that finds the object gone from the store,
\* do not call it and leave observedGeneration as it was.
C19_ObservedGenerationOncePerSuccess ==
    [][PassOnKey
        => IF bcStored /\ Reconciled' /\ lastApplyErr' = NoError
              THEN /\ StatusUpdates' = 1
                   /\ lastErr' \subseteq {<<"UpdateBackupConfigurationStatus", 0>>}
                   /\ observedGeneration' =
                          IF lastErr' = NoError THEN generation ELSE observedGeneration
              ELSE /\ StatusUpdates' = 0
                   /\ observedGeneration' = observedGeneration]_vars

\* the invoker was edited and the pass after the edit has gone through: the
\* second generation is observed
C19_Witness ==
    /\ generation = 2
    /\ observedGeneration = 2
    /\ StatusUpdates = 1
    /\ lastErr = NoError
    /\ bcStored

(***************************************************************************)
(* The worker pool of the BackupConfiguration queue: queue.New starts      *)
(* NumThreads workers on one work queue; the informer's handler and        *)
(* requeueInvoker add keys to it.                                          *)
(***************************************************************************)

Workers == 1..NumThreads
Keys == 1..NumKeys

Range(seq) == {seq[i] : i \in 1..Len(seq)}

\* a work queue that puts the key into the queue even while it is being
\* processed
QueueAddWhileProcessing(q, k) ==
    IF k \in q.dirty
       THEN q
       ELSE [q EXCEPT !.dirty = @ \cup {k}, !.queue = Append(@, k)]

\* workqueue Add: a key that waits already is dropped, a key that is being
\* processed is marked dirty only
QueueAdd(q, k) ==
    IF k \in q.dirty
       THEN q
       ELSE IF k \in q.processing
               THEN [q EXCEPT !.dirty = @ \cup {k}]
               ELSE [q EXCEPT !.dirty = @ \cup {k}, !.queue = Append(@, k)]

\* workqueue Get: the first key is handed out and is being processed
QueueGet(q) ==
    [q EXCEPT !.queue = Tail(@),
              !.processing = @ \cup {Head(q.queue)},
              !.dirty = @ \ {Head(q.queue)}]

\* workqueue Done: the key is not being processed any more and, if it was
\* added meanwhile, goes into the queue
QueueDone(q, k) ==
    IF k \in q.dirty
       THEN [q EXCEPT !.processing = @ \ {k}, !.queue = Append(@, k)]
       ELSE [q EXCEPT !.processing = @ \ {k}]

\* the handler of the informer adds the key of a changed BackupConfiguration
InformerEvent(k) ==
    /\ bcQueue' = QueueAdd(bcQueue, k)
    /\ UNCHANGED <<bcWorker, bcDelayed, sent, restore, procVars, electVars, fireVars, leaseVars, reconVars>>

\* an idle worker takes the next key and starts runBackupConfigurationProcessor
WorkerGet(w) ==
    /\ bcWorker[w] = NoKey
    /\ bcQueue.queue # <<>>
    /\ bcWorker' = [bcWorker EXCEPT ![w] = Head(bcQueue.queue)]
    /\ bcQueue' = QueueGet(bcQueue)
    /\ UNCHANGED <<bcDelayed, sent, restore, procVars, electVars, fireVars, leaseVars, reconVars>>

\* the pass of worker w calls requeueInvoker: AddAfter(key, delay)
WorkerRequeue(w) ==
    /\ bcWorker[w] # NoKey
    /\ bcWorker[w] \notin bcDelayed
    /\ bcDelayed' = bcDelayed \cup {bcWorker[w]}
    /\ UNCHANGED <<bcQueue, bcWorker, sent, restore, procVars, electVars, fireVars, leaseVars, reconVars>>

\* the delay of a delayed add has passed: the key is added
DelayElapsed(k) ==
    /\ k \in bcDelayed
    /\ bcDelayed' = bcDelayed \ {k}
    /\ bcQueue' = QueueAdd(bcQueue, k)
    /\ UNCHANGED <<bcWorker, sent, restore, procVars, electVars, fireVars, leaseVars, reconVars>>

\* the pass of worker w returns: a key whose pass failed is added again
\* after a back-off, and the key is done
WorkerDone(w, failed) ==
    /\ bcWorker[w] # NoKey
    /\ bcDelayed' = IF failed THEN bcDelayed \cup {bcWorker[w]} ELSE bcDelayed
    /\ bcQueue' = QueueDone(bcQueue, bcWorker[w])
    /\ bcWorker' = [bcWorker EXCEPT ![w] = NoKey]
    /\ UNCHANGED <<sent, restore, procVars, electVars, fireVars, leaseVars, reconVars>>

InitPool == InitWith({"StatefulSet"})

NextPool ==
    \/ \E k \in Keys : InformerEvent(k)
    \/ \E w \in Workers : WorkerGet(w)
    \/ \E w \in Workers : WorkerRequeue(w)
    \/ \E k \in Keys : DelayElapsed(k)
    \/ \E w \in Workers, failed \in BOOLEAN : WorkerDone(w, failed)

SpecPool == InitPool /\ [][NextPool]_vars

\* no key is with two workers
OneWorkerPerKey ==
    \A w1, w2 \in Workers : (w1 # w2 /\ bcWorker[w1] # NoKey) => bcWorker[w1] # bcWorker[w2]

\* a key that is being processed does not wait in the queue, where no key
\* waits twice; the keys being processed are those the workers hold
ProcessingKeysHeldBack ==
    /\ bcQueue.processing = {bcWorker[w] : w \in Workers} \ {NoKey}
    /\ bcQueue.processing \cap Range(bcQueue.queue) = {}
    /\ Cardinality(Range(bcQueue.queue)) = Len(bcQueue.queue)

\* a key added while it was being processed goes into the queue when its
\* pass ends
ProcessedAgainAfterPass ==
    \A w \in Workers :
        (bcWorker[w] # NoKey /\ bcWorker'[w] = NoKey /\ bcWorker[w] \in bcQueue.dirty)
            => /\ bcWorker[w] \in Range(bcQueue'.queue)
               /\ bcWorker[w] \notin bcQueue'.processing

\* C18: with NumThreads workers on the BackupConfiguration queue no key is
\* processed by two workers at a time; a key added again (by an event or by
\* a delayed requeue) while it is being processed is kept back, once, and
\* goes into the queue when the current pass ends.
C18_KeyProcessedByOneWorker ==
    /\ [](OneWorkerPerKey /\ ProcessingKeysHeldBack)
    /\ [][ProcessedAgainAfterPass]_vars

\* two workers process different keys at the same time, and one of the keys
\* was added again meanwhile and is kept back
C18_Witness ==
    /\ bcWorker[1] = 1
    /\ bcWorker[2] = 2
    /\ 1 \in bcQueue.dirty
    /\ 1 \notin Range(bcQueue.queue)

(***************************************************************************)
(* sendEventToWorkloadQueue on its own: any kind and name, any content of  *)
(* the listers, with and without the OpenShift client.                     *)
(***************************************************************************)

\* the kinds sendEventToWorkloadQueue is called with: those of its switch
\* and one it has no case for
EventKinds == DispatchKinds \cup {"PersistentVolumeClaim"}

\* the keys waiting in the workload queues
QueuedKeys == {<<k, name>> \in DispatchKinds \X Targets : name \in wlQueue[k]}

\* sendEventToWorkloadQueue(k, namespace, name) is called
SendEvent(k, name) ==
    /\ Cardinality(QueuedKeys) < MaxQueued
    /\ wlQueue' = QueuesAfterEvent(wlQueue, k, name)
    /\ sent' = [kind |-> k, name |-> name, err |-> EventError(k, name), seq |-> ~sent.seq]
    /\ UNCHANGED <<bcStored, deleting, finalizer, driver, repoState, secretState, targetState,
                   conds, cronJob, generation, observedGeneration, queued, lastCalls,
                   lastRequeues, lastApplyErr, lastErr, inv, listed, ocConfigured, sidecar, rbac,
                   bcQueue, bcWorker, bcDelayed, restore, procVars, electVars, fireVars, leaseVars>>

\* the listers hold the workloads of some names, of every kind
InitDispatch ==
    /\ InitController({"StatefulSet"})
    /\ LeaseIdle
    /\ QueueIdle
    /\ bcStored = FALSE
    /\ deleting = FALSE
    /\ finalizer = FALSE
    /\ driver = ""
    /\ repoState = "found"
    /\ secretState = "found"
    /\ targetState = [t \in Targets |-> "found"]
    /\ conds = NoConditions
    /\ cronJob = NoCronJob
    /\ generation = 1
    /\ observedGeneration = 0
    /\ queued = FALSE
    /\ lastCalls = <<>>
    /\ lastRequeues = <<>>
    /\ lastApplyErr = NoError
    /\ lastErr = NoError
    /\ inv = [paused |-> FALSE, schedule |-> "s1", serviceAccount |-> ""]
    /\ wlQueue = NoQueuedKeys
    /\ \E names \in SUBSET Targets : listed = EventKinds \X names
    /\ ocConfigured \in BOOLEAN
    /\ sidecar = [t \in Targets |-> FALSE]
    /\ rbac = FALSE

NextDispatch ==
    \/ \E k \in EventKinds, name \in Targets : SendEvent(k, name)
    \/ \E k \in DispatchKinds : WorkloadControllerSync(k)

SpecDispatch == InitDispatch /\ [][NextDispatch]_vars

\* sendEventToWorkloadQueue was called in this step
EventSent == sent'.seq # sent.seq

\* the kind has a queue that can be used: it is one of the six kinds and,
\* for DeploymentConfig, the OpenShift client and lister are set
HasQueue(k) ==
    /\ k \in {"Deployment", "DaemonSet", "StatefulSet", "ReplicationController", "ReplicaSet",
              "DeploymentConfig"}
    /\ k = "DeploymentConfig" => ocConfigured

\* C20: sendEventToWorkloadQueue for a kind with a usable queue and an
\* object that is in the lister of the kind adds the key of the object to
\* the queue of that kind, leaves every other queue as it is and returns no
\* error; for any other kind, for DeploymentConfig without the OpenShift
\* client, and for an object that is not in the lister, it changes no queue
\* and returns no error.
C20_EventGoesToQueueOfKind ==
    [][EventSent
        => /\ sent'.err = NoError
           /\ IF HasQueue(sent'.kind) /\ <<sent'.kind, sent'.name>> \in listed
                 THEN /\ wlQueue'[sent'.kind] = wlQueue[sent'.kind] \cup {sent'.name}
                      /\ \A k \in DispatchKinds \ {sent'.kind} : wlQueue'[k] = wlQueue[k]
                 ELSE wlQueue' = wlQueue]_vars

\* a DeploymentConfig that is in its lister was sent with the OpenShift
\* client set, and its key is alone in the queue of DeploymentConfigs while
\* another queue holds the key of another event
C20_Witness ==
    /\ sent.kind = "DeploymentConfig"
    /\ ocConfigured
    /\ <<"DeploymentConfig", sent.name>> \in listed
    /\ wlQueue["DeploymentConfig"] = {sent.name}
    /\ wlQueue["Deployment"] # {}

(***************************************************************************)
(* pkg/util: RestoreOptionsForHost picks the restore rule of a host.       *)
(***************************************************************************)

\* the host names of the workloads and of the rules
Hosts == {"h1", "h2"}

\* the rule at position i of a list: its Paths, Snapshots, Include and
\* Exclude are its own
RuleAt(i, sourceHost, targetHosts) ==
    [SourceHost |-> sourceHost, TargetHosts |-> targetHosts, Paths |-> <<"paths", i>>,
     Snapshots |-> <<"snapshots", i>>, Include |-> <<"include", i>>,
     Exclude |-> <<"exclude", i>>]

\* the lists of at most MaxRules rules; TargetHosts is kept as the set of its
\* elements, SourceHost "" is the field left out
RuleLists ==
    UNION {[1..n -> [SourceHost : {"", "h2"}, TargetHosts : SUBSET Hosts]] : n \in 0..MaxRules}

Rules(list) == [i \in DOMAIN list |-> RuleAt(i, list[i].SourceHost, list[i].TargetHosts)]

\* restic.RestoreOptions{}
EmptyOptions ==
    [Host |-> "", SourceHost |-> "", RestorePaths |-> <<>>, Snapshots |-> <<>>,
     Include |-> <<>>, Exclude |-> <<>>]

\* the restore options the loop body builds from a rule
MatchedRule(hostname, rule) ==
    [Host |-> hostname,
     SourceHost |-> IF rule.SourceHost # "" THEN rule.SourceHost ELSE hostname,
     RestorePaths |-> rule.Paths,
     Snapshots |-> rule.Snapshots,
     Include |-> rule.Include,
     Exclude |-> rule.Exclude]

\* a loop that goes on after a rule with target hosts matched
RECURSIVE ScanAllRules(_, _, _, _)
ScanAllRules(hostname, rules, i, matchedRule) ==
    IF i > Len(rules)
       THEN [options |-> matchedRule, evaluated |-> Len(rules)]
       ELSE IF rules[i].TargetHosts = {} \/ hostname \in rules[i].TargetHosts
               THEN ScanAllRules(hostname, rules, i + 1, MatchedRule(hostname, rules[i]))
               ELSE ScanAllRules(hostname, rules, i + 1, matchedRule)

RestoreOptionsOfLastMatch(hostname, rules) == ScanAllRules(hostname, rules, 1, EmptyOptions)

\* a loop in which a rule without target hosts is taken only when no rule
\* was taken before
RECURSIVE ScanKeepingFirst(_, _, _, _)
ScanKeepingFirst(hostname, rules, i, matchedRule) ==
    IF i > Len(rules)
       THEN [options |-> matchedRule, evaluated |-> Len(rules)]
       ELSE IF rules[i].TargetHosts = {}
               THEN ScanKeepingFirst(hostname, rules, i + 1,
                                     IF matchedRule = EmptyOptions
                                        THEN MatchedRule(hostname, rules[i])
                                        ELSE matchedRule)
               ELSE IF hostname \in rules[i].TargetHosts
                       THEN [options |-> MatchedRule(hostname, rules[i]), evaluated |-> i]
                       ELSE ScanKeepingFirst(hostname, rules, i + 1, matchedRule)

RestoreOptionsOfFirstDefault(hostname, rules) ==
    ScanKeepingFirst(hostname, rules, 1, EmptyOptions)

\* the loop over the rules from rule i on: options is what is returned,
\* evaluated the number of rules the loop has looked at
RECURSIVE ScanRules(_, _, _, _)
ScanRules(hostname, rules, i, matchedRule) ==
    IF i > Len(rules)
       THEN [options |-> matchedRule, evaluated |-> Len(rules)]
       ELSE IF rules[i].TargetHosts = {} \/ hostname \in rules[i].TargetHosts
               THEN IF rules[i].TargetHosts = {}
                       THEN ScanRules(hostname, rules, i + 1, MatchedRule(hostname, rules[i]))
                       ELSE [options |-> MatchedRule(hostname, rules[i]), evaluated |-> i]
               ELSE ScanRules(hostname, rules, i + 1, matchedRule)

RestoreOptionsForHost(hostname, rules) == ScanRules(hostname, rules, 1, EmptyOptions)

\* RestoreOptionsForHost is called on the arguments and returns
CallRestoreOptionsForHost ==
    /\ ~restore.returned
    /\ \E r \in {RestoreOptionsForHost(restore.hostname, restore.rules)} :
           restore' = [hostname |-> restore.hostname, rules |-> restore.rules,
                       returned |-> TRUE, options |-> r.options, evaluated |-> r.evaluated]
    /\ UNCHANGED <<bcQueue, bcWorker, bcDelayed, sent, procVars, electVars, fireVars, leaseVars,
                   reconVars>>

\* the same rules are used for another host
NextHost ==
    /\ restore.returned
    /\ \E h \in Hosts \ {restore.hostname} :
           restore' = [hostname |-> h, rules |-> restore.rules, returned |-> FALSE]
    /\ UNCHANGED <<bcQueue, bcWorker, bcDelayed, sent, procVars, electVars, fireVars, leaseVars,
                   reconVars>>

InitOptions ==
    /\ InitController({"StatefulSet"})
    /\ LeaseIdle
    /\ bcStored = FALSE
    /\ deleting = FALSE
    /\ finalizer = FALSE
    /\ driver = ""
    /\ repoState = "found"
    /\ secretState = "found"
    /\ targetState = [t \in Targets |-> "found"]
    /\ conds = NoConditions
    /\ cronJob = NoCronJob
    /\ generation = 1
    /\ observedGeneration = 0
    /\ queued = FALSE
    /\ lastCalls = <<>>
    /\ lastRequeues = <<>>
    /\ lastApplyErr = NoError
    /\ lastErr = NoError
    /\ inv = [paused |-> FALSE, schedule |-> "s1", serviceAccount |-> ""]
    /\ wlQueue = NoQueuedKeys
    /\ listed = {}
    /\ ocConfigured = FALSE
    /\ sidecar = [t \in Targets |-> FALSE]
    /\ rbac = FALSE
    /\ bcQueue = EmptyQueue
    /\ bcWorker = [w \in 1..NumThreads |-> NoKey]
    /\ bcDelayed = {}
    /\ sent = NoEvent
    /\ \E list \in RuleLists :
           restore = [hostname |-> "h1", rules |-> Rules(list), returned |-> FALSE]

NextOptions == CallRestoreOptionsForHost \/ NextHost

SpecOptions == InitOptions /\ [][NextOptions]_vars

\* the positions of the rules that name the host among their target hosts,
\* and of the rules without target hosts
NamingRules == {i \in 1..Len(restore.rules) : restore.hostname \in restore.rules[i].TargetHosts}
DefaultRules == {i \in 1..Len(restore.rules) : restore.rules[i].TargetHosts = {}}

Min(S) == CHOOSE x \in S : \A y \in S : x <= y
Max(S) == CHOOSE x \in S : \A y \in S : x >= y

\* the options of the rule at position i, for the host
OptionsOfRule(i) ==
    [Host |-> restore.hostname,
     SourceHost |-> IF restore.rules[i].SourceHost = ""
                       THEN restore.hostname
                       ELSE restore.rules[i].SourceHost,
     RestorePaths |-> <<"paths", i>>,
     Snapshots |-> <<"snapshots", i>>,
     Include |-> <<"include", i>>,
     Exclude |-> <<"exclude", i>>]

\* C21: when some rule names the host among its target hosts,
\* RestoreOptionsForHost returns the options of the first such rule and
\* has looked at no rule after it, whatever rules without target hosts
\* stand before it.
C21_FirstNamingRuleWins ==
    (restore.returned /\ NamingRules # {})
        => /\ restore.options = OptionsOfRule(Min(NamingRules))
           /\ restore.evaluated = Min(NamingRules)

\* a rule without target hosts stands before the first rule that names the
\* host, another rule that names it stands after, and the call has returned
C21_Witness ==
    /\ restore.returned
    /\ Cardinality(NamingRules) > 1
    /\ DefaultRules # {}
    /\ Min(DefaultRules) < Min(NamingRules)
    /\ restore.evaluated < Len(restore.rules)
    /\ restore.options.RestorePaths = <<"paths", Min(NamingRules)>>

\* C26: when no rule names the host among its target hosts,
\* RestoreOptionsForHost returns the options of the last rule without target
\* hosts, and the empty options when there is none; a result that is not
\* empty has the host as Host and, as SourceHost, that of the chosen rule, or
\* the host when the rule has none.
C26_LastDefaultRuleWins ==
    restore.returned
        => /\ NamingRules = {}
                  => /\ restore.evaluated = Len(restore.rules)
                     /\ restore.options = IF DefaultRules = {}
                                             THEN EmptyOptions
                                             ELSE OptionsOfRule(Max(DefaultRules))
           /\ restore.options # EmptyOptions
                  => /\ restore.options.Host = restore.hostname
                     /\ \E i \in NamingRules \cup DefaultRules :
                            /\ restore.options.RestorePaths = restore.rules[i].Paths
                            /\ restore.options.SourceHost =
                                   IF restore.rules[i].SourceHost = ""
                                      THEN restore.hostname
                                      ELSE restore.rules[i].SourceHost

\* two rules without target hosts, the later with a source host of its own,
\* no rule naming the host: the later rule was returned
C26_Witness ==
    /\ restore.returned
    /\ NamingRules = {}
    /\ Cardinality(DefaultRules) > 1
    /\ restore.rules[Max(DefaultRules)].SourceHost = "h2"
    /\ restore.options.RestorePaths = <<"paths", Max(DefaultRules)>>
    /\ restore.options.SourceHost = "h2"
    /\ restore.options.Host = "h1"

(***************************************************************************)
(* The backup firings of one controller process whose Restic may be        *)
(* paused when a firing reads it.                                          *)
(***************************************************************************)

NextFiring ==
    \/ BackupScheduler(1)
    \/ CronStart(1)
    \/ PlaceToken(1)
    \/ CacheSync(1)
    \/ configureSchedulerWith(1, {"s1"})
    \/ \E f \in Firings :
           \/ Fire(1, f)
           \/ BackupSelect(1, f)
           \/ BackupBodyWith(1, f, BackupStops \cup {PausedStop})
           \/ BackupRun(1, f)
           \/ CheckGet(1, f)
           \/ CheckSelect(1, f)
           \/ CheckRun(1, f)
           \/ Return(1, f)

SpecFiring == Init /\ [][NextFiring]_vars

\* firing f is a backup firing that has gone through its body and has not
\* returned yet
InBackupBody(f) ==
    /\ fpc[1][f] \in {"b_run", "ret"}
    /\ fcalls[1][f] # <<>>
    /\ Head(fcalls[1][f]) \in {"rLister.Get", "rLister.Get (paused)"}

\* the calls of firing f, whatever the policy read
StepsMade(f) == <<"rLister.Get">> \o Tail(fcalls[1][f])

\* firing f has invoked runResticBackup
BackupInvoked(f) == "runResticBackup" \in Range(fcalls[1][f])

AnsweredBefore(op, ref, val, i) ==
    \E j \in 1..(i - 1) : lastCalls[j] = <<op, ref, val>>

\* a lookup before position i of the last pass found its dependency missing
RepositoryMissingBefore(i) == AnsweredBefore("Repositories.Get", 0, "missing", i)
SecretMissingBefore(i) == AnsweredBefore("Secrets.Get", 0, "missing", i)
TargetMissingBefore(i) == \E t \in Targets : AnsweredBefore("IsTargetExist", t, "missing", i)

\* the calls of the last pass follow the order of the dependencies
DependenciesInOrder ==
    \A i \in 1..Len(lastCalls) :
        LET op == lastCalls[i][1]
        IN  /\ op = "Secrets.Get" => AnsweredBefore("Repositories.Get", 0, "found", i)
            /\ op = "IsTargetExist" => AnsweredBefore("Secrets.Get", 0, "found", i)
            /\ op \in {"EnsureBackupTriggeringCronJob", "CreateOrPatchCronJob"}
                   => \A t \in Targets : AnsweredBefore("IsTargetExist", t, "found", i)
            /\ op = "SetBackendSecretFoundCondition" => ~RepositoryMissingBefore(i)
            /\ op = "SetBackupTargetFoundCondition"
                   => ~RepositoryMissingBefore(i) /\ ~SecretMissingBefore(i)
            /\ op = "SetCronJobCreatedCondition"
                   => /\ ~RepositoryMissingBefore(i)
                      /\ ~SecretMissingBefore(i)
                      /\ ~TargetMissingBefore(i)

\* the conditions of the dependencies after the one the pass finds missing
LaterConditions ==
    IF repoState = "missing"
       THEN {<<"BackendSecretFound", 0>>, <<"CronJobCreated", 0>>}
                \cup {<<"BackupTargetFound", t>> : t \in Targets}
       ELSE IF repoState = "found" /\ secretState = "missing"
               THEN {<<"CronJobCreated", 0>>} \cup {<<"BackupTargetFound", t>> : t \in Targets}
               ELSE IF repoState = "found" /\ secretState = "found" /\ MissingTargets # {}
                           /\ \A t \in Targets : targetState[t] # "error"
                       THEN {<<"CronJobCreated", 0>>}
                       ELSE {}

\* C23: in a pass on an invoker of the default driver the backend secret is
\* looked up only after the repository was found in the pass, a target is
\* probed only after the secret was found, the CronJob is ensured only after
\* every target was found, and the condition of a dependency is neither
\* written nor changed once an earlier dependency was found missing.
C23_DependenciesCheckedInOrder ==
    [][(PassOnLiveInvoker /\ DefaultDriver)
        => /\ DependenciesInOrder'
           /\ \A c \in LaterConditions : conds'[c] = conds[c]]_vars

\* the last pass, of the default driver, found the repository and then the
\* secret missing: the secret was looked up, no target was probed and the
\* conditions of the targets and of the CronJob are not set
C23_Witness ==
    /\ DefaultDriver
    /\ ~deleting
    /\ Made(<<"Repositories.Get", 0, "found">>)
    /\ Made(<<"Secrets.Get", 0, "missing">>)
    /\ conds[<<"BackendSecretFound", 0>>] = "False"
    /\ \A t \in Targets : conds[<<"BackupTargetFound", t>>] = "none"
    /\ conds[<<"CronJobCreated", 0>>] = "none"
    /\ lastRequeues = <<RequeueDelay>>

\* the last pass called op on ref, with whatever argument or answer
MadeAny(op, ref) == \E i \in 1..Len(lastCalls) : lastCalls[i][1] = op /\ lastCalls[i][2] = ref

\* the last pass looked at neither the repository nor the backend secret
NoRepositoryOrSecretCheck ==
    /\ ~MadeAny("Repositories.Get", 0)
    /\ ~MadeAny("Secrets.Get", 0)
    /\ ~MadeAny("SetRepositoryFoundCondition", 0)
    /\ ~MadeAny("SetBackendSecretFoundCondition", 0)

\* the last pass notified no workload controller
NoSidecarNotification == \A t \in Targets : ~MadeAny("EnsureV1beta1Sidecar", t)

\* C24: a pass on an invoker whose driver is neither empty nor
\* ResticSnapshotter looks up neither the repository nor the backend secret,
\* writes neither of their conditions and notifies no workload controller,
\* whatever the state of the repository and the secret; if no probe answers
\* an error and no call of the pass fails, it probes every target and, when
\* all of them exist, ensures the CronJob.
C24_OtherDriverSkipsRepositoryAndSecret ==
    [][(PassOnLiveInvoker /\ ~DefaultDriver)
        => /\ NoRepositoryOrSecretCheck'
           /\ NoSidecarNotification'
           /\ wlQueue' = wlQueue
           /\ conds'[<<"RepositoryFound", 0>>] = conds[<<"RepositoryFound", 0>>]
           /\ conds'[<<"BackendSecretFound", 0>>] = conds[<<"BackendSecretFound", 0>>]
           /\ ReconciledWithoutFailure' =>
                  /\ \A t \in Targets : MadeAny("IsTargetExist", t)'
                  /\ TargetConditionsTellProbes'
                  /\ MissingTargets = {} =>
                         /\ MadeAny("CreateOrPatchCronJob", 0)'
                         /\ cronJob'.exists
                         /\ conds'[<<"CronJobCreated", 0>>] = "True"
                         /\ lastRequeues' = <<>>]_vars

\* the last pass, on an invoker of another driver whose repository is
\* missing, probed the targets, a sidecar-model one among them, notified no
\* workload controller and created the CronJob
C24_Witness ==
    /\ ~DefaultDriver
    /\ ~deleting
    /\ repoState = "missing"
    /\ \A t \in Targets : Made(<<"IsTargetExist", t, "found">>)
    /\ \E t \in Targets : TargetKind(t) \in SidecarKinds
    /\ wlQueue = NoQueuedKeys
    /\ conds[<<"RepositoryFound", 0>>] = "none"
    /\ cronJob.exists
    /\ conds[<<"CronJobCreated", 0>>] = "True"

\* the last pass wrote status.observedGeneration
ObservedGenerationWritten ==
    /\ Made(<<"UpdateBackupConfigurationStatus", 0, "">>)
    /\ <<"UpdateBackupConfigurationStatus", 0>> \notin lastErr
    /\ observedGeneration = generation

\* the last pass completed the work: it ensured the CronJob, or removed the
\* finalizer after the cleanup of a deletion
WorkCompleted ==
    \/ MadeAny("CreateOrPatchCronJob", 0)
    \/ Made(<<"RemoveFinalizer", 0, "">>) /\ ~finalizer

\* C25: status.observedGeneration is written only by a pass that ensured
\* the CronJob or completed the deletion cleanup, and by no pass that
\* ended in a requeue for a missing dependency.
C25_ObservedGenerationOnlyAfterWorkDone ==
    [][(queued /\ ~queued' /\ ObservedGenerationWritten')
        => (WorkCompleted' /\ lastRequeues' = <<>>)]_vars

(***************************************************************************)
(* The conservation of the token of c.locked                               *)
(***************************************************************************)

\* the tokens of replica r: in the channel or held by a firing
Tokens(r) == locked[r] + Cardinality(Holders(r))

\* C27: the tokens in c.locked and the firings holding one are together at
\* most one; exactly one from the moment runScheduler has sent the initial
\* token, and none before it, when the cron is already started and the
\* select of a firing could only take its default branch; no step adds a
\* second token.
C27_OneTokenOncePlaced ==
    \A r \in Replicas :
        /\ Tokens(r) <= 1
        /\ TokenPlaced(r) => Tokens(r) = 1
        /\ ~TokenPlaced(r) => (Tokens(r) = 0 /\ ~TokenAvailable(r))

\* the token is placed and held by a firing that is about to return an
\* error; a later firing has skipped meanwhile
C27_Witness ==
    \E f, g \in Firings :
        /\ TokenPlaced(1)
        /\ fpc[1][f] = "ret"
        /\ fres[1][f] = "err"
        /\ locked[1] = 0
        /\ fpc[1][g] = "done"
        /\ ~facq[1][g]

(***************************************************************************)
(* The entries of the cron after configureScheduler                        *)
(***************************************************************************)

\* what the cron holds after a configureScheduler that returned nil
ConfiguredEntries(s) == <<BackupEntry(s), CheckEntry>>

\* the entries e are those a call of configureScheduler with schedule s
\* leaves: the backup entry on s and the check entry, or none when s is
\* rejected
LeftByConfigure(e, s) == e = IF ValidSchedule(s) THEN ConfiguredEntries(s) ELSE <<>>

\* C28: whatever entries the cron holds, a configureScheduler with a
\* schedule the cron accepts leaves exactly the backup entry on that
\* schedule and the check entry on "0 0 */3 * *", and one with a rejected
\* schedule leaves no entry; so the cron never holds more than these two,
\* however many calls were made.
C28_TwoEntriesOrNone ==
    /\ [](\A r \in Replicas :
              /\ Len(entries[r]) \in {0, 2}
              /\ \A s \in Schedules :
                     LeftByConfigure(EntriesAfterConfigure(entries[r], s), s))
    /\ [][\A r \in Replicas :
              entries'[r] # entries[r]
                  => /\ spc[r] = "run"
                     /\ \E s \in Schedules : LeftByConfigure(entries'[r], s)]_vars

\* the cron holds no entry though a firing has started from one: a call
\* with a rejected schedule has removed the two entries of a call before it
C28_Witness ==
    /\ entries[1] = <<>>
    /\ \E f \in Firings : fpc[1][f] # "idle"

(***************************************************************************)
(* The passes on an invoker under deletion: with the finalizer, and        *)
(* without it while the finalizer of another party holds the object        *)
(***************************************************************************)

NextFinalizer ==
    \/ runBackupConfigurationProcessor
    \/ Enqueue
    \/ DeleteInvoker
    \/ DeleteInvokerHeld

SpecFinalizer == InitDeletion /\ [][NextFinalizer]_vars

\* the step is a pass
PassStep == queued /\ ~queued'

\* the last pass added the finalizer
FinalizerAdded ==
    /\ Made(<<"AddFinalizer", 0, "">>)
    /\ <<"AddFinalizer", 0>> \notin lastErr
    /\ finalizer

\* the last pass ensured the service account, the RBAC objects and the
\* CronJob, or asked a workload controller for a sidecar
OwnedResourcesEnsured ==
    \/ MadeAny("EnsureBackupTriggeringCronJob", 0)
    \/ MadeAny("CreateOrPatchCronJob", 0)
    \/ \E t \in Targets : MadeAny("EnsureV1beta1Sidecar", t)

\* the calls a pass makes outside applyBackupInvokerReconciliationLogic
ProcessorCalls == {"GetByKey", "ExtractBackupInvokerInfo", "UpdateBackupConfigurationStatus"}

\* the pass changes nothing but the observed generation
NothingChanged ==
    /\ conds' = conds
    /\ cronJob' = cronJob
    /\ rbac' = rbac
    /\ wlQueue' = wlQueue
    /\ finalizer' = finalizer
    /\ bcStored' = bcStored
    /\ lastRequeues' = <<>>
    /\ lastApplyErr' = NoError
    /\ \A i \in 1..Len(lastCalls') : lastCalls'[i][1] \in ProcessorCalls

\* what holds of every pass, whatever a deletion pass may do to the CronJob
ReconcilerFrame ==
    /\ OwnedResourcesEnsured' => (~deleting /\ FinalizerAdded')
    /\ (cronJob'.exists /\ ~cronJob.exists) => ~deleting
    /\ (rbac' /\ ~rbac) => ~deleting
    /\ deleting => ~MadeAny("AddFinalizer", 0)'
    /\ deleting => (finalizer' => finalizer)
    /\ (deleting /\ ~finalizer) => NothingChanged

\* C29 as claimed: owned resources are created or updated and sidecar
\* injections asked for only in a pass on an invoker that is not being
\* deleted, after AddFinalizer succeeded; a pass on an invoker under
\* deletion adds no finalizer and creates or updates no owned resource, and
\* changes nothing when the finalizer is absent.
C29_DeletionPassWritesNoOwnedResource ==
    [][PassStep => (ReconcilerFrame /\ (deleting => cronJob' = cronJob))]_vars

\* C29: the same, but for one update a pass on an invoker under deletion
\* that has the finalizer may make: it adds the owner reference of the
\* invoker to an existing CronJob that lacks it.
C29_DeletionPassOnlyEnsuresOwner ==
    [][PassStep
        => /\ ReconcilerFrame
           /\ deleting =>
                  \/ cronJob' = cronJob
                  \/ /\ finalizer
                     /\ cronJob.exists
                     /\ InvOwnerRef \notin cronJob.owners
                     /\ cronJob' = [cronJob EXCEPT !.owners = @ \cup {InvOwnerRef}]]_vars

\* the last pass ran on an invoker under deletion that never had the
\* finalizer and is still there: it made no call of the reconciliation and
\* returned no error, and the orphan CronJob is as it was
C29_Witness ==
    /\ deleting
    /\ ~finalizer
    /\ bcStored
    /\ ~queued
    /\ Made(<<"ExtractBackupInvokerInfo", 0, "">>)
    /\ Made(<<"UpdateBackupConfigurationStatus", 0, "">>)
    /\ lastErr = NoError
    /\ cronJob = OrphanCronJob
    /\ wlQueue = NoQueuedKeys

====
